---- MODULE Spec2Model ----
(***************************************************************************)
(* VideoSplice: the video-to-clip derivation engine.                       *)
(*                                                                         *)
(* One module, one specification per component:                            *)
(*   SpecCluster   video_pipeline/cluster_frames.py   run                  *)
(*   SpecClipper   video_pipeline/clipper.py          run                  *)
(*   SpecSelect    video_pipeline/select_representative_frames.py run      *)
(*   SpecPipeline  video_pipeline/pipeline.py         run                  *)
(* A component that a specification does not exercise stays in its idle    *)
(* state.  Times are whole seconds; a frame path is the pair               *)
(* <<"frame", k>> standing for frames/frame_00000k.jpg.                    *)
(***************************************************************************)
EXTENDS Integers, Sequences, FiniteSets, TLC

\* ------------------------------------------------------------- bounds ----
\* Longest frame list handed to cluster_frames.run.
MaxFrames == 5
\* Largest label the density clustering hands out (labels are -1..MaxLabel).
MaxLabel == 1
\* Longest frame list handed to clipper.run.
MaxClipFrames == 5
\* Largest scene id in a scene assignment handed to clipper.run.
MaxSceneId == 1
\* Longest frame list handed to select_representative_frames.run.
MaxSelFrames == 3
\* Most frames a video handed to pipeline.run holds.
MaxNativeFrames == 3
\* Most invocations of new_run_dir considered together.
MaxCallers == 2
\* Most frames a video handed to extract_frames.run on its own decodes to.
MaxDecodedFrames == 6
\* Most calls of progress_callback followed during one pipeline invocation.
MaxProgressCalls == 2

\* ---------------------------------------------------- program constants ----
\* clipper.run(max_clip_seconds=240)
DEFAULT_MAX_CLIP_SECONDS == 240
\* config.CLIP_MAX_LENGTH
CLIP_MAX_LENGTH == 120
\* config.MAX_MEMORY_MB
MAX_MEMORY_MB == 450
\* config.MEMORY_CRITICAL_THRESHOLD * 100
MEMORY_CRITICAL_PERCENT == 90
\* get_memory_usage: readings above this many megabytes are discarded
MEMORY_SANITY_MB == 10000
\* config.FRAME_RATE = 0.5 as the fraction FRAME_RATE_NUM / FRAME_RATE_DEN
FRAME_RATE_NUM == 1
FRAME_RATE_DEN == 2
\* video_io._FPS_FALLBACK
FPS_FALLBACK == 30

\* ------------------------------------------------------ shared helpers ----
\* The noise sentinel of HDBSCAN (cluster_frames.py line 87).
NOISE == -1
\* A local that has not been assigned yet.
UNSET == "unset"

FramePath(k) == <<"frame", k>>

SetMax(S) == CHOOSE x \in S : \A y \in S : y <= x
SetMin(S) == CHOOSE x \in S : \A y \in S : x <= y
Range(s) == {s[k] : k \in DOMAIN s}

\* labels.max()
SeqMax(s) == SetMax(Range(s))

\* sorted(frames, key=index) / DataFrame.sort_values("index"): indexes are
\* unique, so the order is determined.
RECURSIVE SortByIndex(_)
SortByIndex(fs) ==
    IF fs = <<>> THEN <<>>
    ELSE LET lo == SetMin({fs[k].index : k \in DOMAIN fs})
             at == CHOOSE k \in DOMAIN fs : fs[k].index = lo
             rest == [j \in 1..(Len(fs) - 1) |-> IF j < at THEN fs[j] ELSE fs[j + 1]]
         IN  <<fs[at]>> \o SortByIndex(rest)

Reverse(s) == [k \in 1..Len(s) |-> s[Len(s) + 1 - k]]

\* All sequences over S of length exactly n.
SeqsOfLen(S, n) == [1..n -> S]

VARIABLES
    \* ---- cluster_frames.run
    cf_pc,            \* "idle" | "start" | "reduce" | "cluster" | "loop" | "done"
    cf_frames,        \* the frames argument: records [index, path]
    cf_df,            \* frames sorted by index
    cf_reduced,       \* whether UMAP ran
    cf_labels,        \* clusterer.labels_
    cf_final,         \* final_labels
    cf_next,          \* next_cluster_id
    cf_in_noise,      \* in_noise_block
    cf_current,       \* current_id
    cf_i,             \* loop position (1-based)
    cf_mapping,       \* the returned mapping path -> scene id (UNSET before)
    \* ---- clipper.run
    cl_pc,            \* "idle" | "start" | "build" | "open" | "block" | "chunk" | "done" | "raised"
    cl_frames,        \* the frames argument: records [index, timestamp, path]
    cl_clusters,      \* the clusters argument: path -> scene id (a partial map)
    cl_video_exists,  \* video_path.exists()
    cl_max,           \* max_clip_seconds
    cl_df,            \* frames sorted by index
    cl_blocks,        \* clip_blocks: records [cid, start, end]
    cl_seq,           \* position of the block loop (0-based, as enumerate)
    cl_chunk_idx,     \* position of the chunk loop
    cl_meta,          \* clips_meta
    cl_attempts,      \* history: every encode call, [name, start, end, cid, ok]
    cl_json,          \* clips.json: [written, content]
    cl_error,         \* the exception run raised ("none": none)
    \* ---- select_representative_frames.run
    sr_pc,            \* "idle" | "start" | "pick" | "done" | "raised"
    sr_frames,        \* the frames argument: records [index, timestamp, path, embedding]
    sr_clusters,      \* the clusters argument: path -> scene id
    sr_grouped,       \* grouped: [cid, items] in key insertion order
    sr_g,             \* position of the loop over grouped (1-based)
    sr_reps,          \* representatives
    sr_json,          \* representatives.json: [written, content]
    sr_error,         \* the exception run raised ("none": none)
    \* ---- pipeline.run
    pl_status,        \* "idle" | "running" | "handling" | "returned" | "raised"
    pl_pc,            \* position in PipelineBody (1-based)
    pl_video,         \* the video behind video_path
    pl_is_render,     \* config.IS_RENDER
    pl_sink,          \* progress_callback: "none" | "callable"
    pl_locals,        \* the locals of run
    pl_checkpoints,   \* the checkpoint calls made: [stage, message]
    pl_sink_calls,    \* the calls made to progress_callback
    pl_sink_failed,   \* some call of progress_callback raised
    pl_executed,      \* the stage calls begun, in order
    pl_guard,         \* first check_memory that returned False: [tripped, used_mb, percent]
    pl_after_trip,    \* a stage call began after check_memory returned False
    pl_error,         \* the exception caught by the except clause
    pl_raised,        \* the exception run raised to its caller
    pl_meta,          \* metadata.json: [written, content]
    pl_trace,         \* the statements of run executed so far, in order
    pl_run_tree,      \* the files under run_dir: [frames, clips, clips_json]
    \* ---- config.new_run_dir, one call per caller
    rd_pc,            \* caller -> "idle" | "start" | "named" | "made" | "frames" | "done" | "raised"
    rd_name,          \* caller -> the directory name it built
    rd_fs,            \* the paths that exist under RUNS_ROOT
    rd_fs0,           \* the paths that existed before any of the calls
    \* ---- extract_frames.run
    ex_pc,            \* "idle" | "start" | "loop" | "done" | "raised"
    ex_video,         \* the video behind video_path
    ex_props,         \* props
    ex_step,          \* step
    ex_frame_idx,     \* frame_idx
    ex_saved_idx,     \* saved_idx
    ex_extracted,     \* extracted
    ex_kept,          \* the native indexes of the frames kept, in order
    ex_error,         \* the exception run raised ("none": none)
    \* ---- config.py memory guard
    gd_is_render,     \* config.IS_RENDER
    gd_psutil,        \* psutil can be imported
    gd_last,          \* the last consultation: [fn, r1, r2, ok, info, error]
    \* ---- app.py: one request and its job
    jb_path,          \* "idle" | "sync" (process_video_sync) | "background" (upload_video)
    jb_pc,            \* "idle" | "received" | "registered" | "assert" | "running" | "over"
    jb_is_render,     \* config.IS_RENDER
    jb_job,           \* JOBS[job_id]: [registered, state, run_dir, error, progress]
    jb_calls,         \* calls of progress_callback made by pipeline.run
    jb_result,        \* how the endpoint or the task ended: [kind, detail]
    jb_polled         \* what get_status last answered ("none": not asked)

clusterVars == <<cf_pc, cf_frames, cf_df, cf_reduced, cf_labels, cf_final,
                 cf_next, cf_in_noise, cf_current, cf_i, cf_mapping>>

clipperVars == <<cl_pc, cl_frames, cl_clusters, cl_video_exists, cl_max, cl_df,
                 cl_blocks, cl_seq, cl_chunk_idx, cl_meta, cl_attempts, cl_json,
                 cl_error>>

selectVars == <<sr_pc, sr_frames, sr_clusters, sr_grouped, sr_g, sr_reps, sr_json,
                sr_error>>

pipelineVars == <<pl_status, pl_pc, pl_video, pl_is_render, pl_sink, pl_locals,
                  pl_checkpoints, pl_sink_calls, pl_sink_failed, pl_executed,
                  pl_guard, pl_after_trip, pl_error, pl_raised, pl_meta, pl_trace,
                  pl_run_tree>>

runDirVars == <<rd_pc, rd_name, rd_fs, rd_fs0>>

extractVars == <<ex_pc, ex_video, ex_props, ex_step, ex_frame_idx, ex_saved_idx,
                 ex_extracted, ex_kept, ex_error>>

guardVars == <<gd_is_render, gd_psutil, gd_last>>

jobsVars == <<jb_path, jb_pc, jb_is_render, jb_job, jb_calls, jb_result, jb_polled>>

vars == <<clusterVars, clipperVars, selectVars, pipelineVars, runDirVars,
          extractVars, guardVars, jobsVars>>

OtherThanCluster == <<clipperVars, selectVars, pipelineVars, runDirVars, extractVars,
                      guardVars, jobsVars>>
OtherThanClipper == <<clusterVars, selectVars, pipelineVars, runDirVars, extractVars,
                      guardVars, jobsVars>>
OtherThanSelect == <<clusterVars, clipperVars, pipelineVars, runDirVars, extractVars,
                     guardVars, jobsVars>>
OtherThanPipeline == <<clusterVars, clipperVars, selectVars, runDirVars, extractVars,
                       guardVars, jobsVars>>
OtherThanRunDir == <<clusterVars, clipperVars, selectVars, pipelineVars, extractVars,
                     guardVars, jobsVars>>
OtherThanExtract == <<clusterVars, clipperVars, selectVars, pipelineVars, runDirVars,
                      guardVars, jobsVars>>
OtherThanGuard == <<clusterVars, clipperVars, selectVars, pipelineVars, runDirVars,
                    extractVars, jobsVars>>
OtherThanJobs == <<clusterVars, clipperVars, selectVars, pipelineVars, runDirVars,
                   extractVars, guardVars>>

\* =========================================================================
\* cluster_frames.run
\* =========================================================================

\* Frame lists as embed_frames returns them (index k, path frame k), in
\* chronological order or reversed: run sorts them itself.
ChronoFrames(n) == [k \in 1..n |-> [index |-> k - 1, path |-> FramePath(k - 1)]]
ClusterInputs == UNION {{ChronoFrames(n), Reverse(ChronoFrames(n))} : n \in 0..MaxFrames}

ClusterIdle ==
    /\ cf_pc = "idle"
    /\ cf_frames = <<>>
    /\ cf_df = <<>>
    /\ cf_reduced = FALSE
    /\ cf_labels = <<>>
    /\ cf_final = <<>>
    /\ cf_next = 0
    /\ cf_in_noise = FALSE
    /\ cf_current = UNSET
    /\ cf_i = 0
    /\ cf_mapping = UNSET

ClusterInit ==
    /\ cf_pc = "start"
    /\ cf_frames \in ClusterInputs
    /\ cf_df = <<>>
    /\ cf_reduced = FALSE
    /\ cf_labels = <<>>
    /\ cf_final = <<>>
    /\ cf_next = 0
    /\ cf_in_noise = FALSE
    /\ cf_current = UNSET
    /\ cf_i = 0
    /\ cf_mapping = UNSET

\* {f["path"]: 0 for f in frames}
ZeroMapping(fs) == [p \in {fs[k].path : k \in DOMAIN fs} |-> 0]

\* dict(zip(df["path"], final_labels)): a later pair overwrites an earlier one.
ZipMapping_DropLast(df, fl) ==
    [p \in {df[k].path : k \in 1..(Len(df) - 1)} |->
        fl[SetMax({k \in 1..(Len(df) - 1) : df[k].path = p})]]
ZipMapping(df, fl) ==
    [p \in {df[k].path : k \in DOMAIN df} |->
        fl[SetMax({k \in DOMAIN df : df[k].path = p})]]

\* Mutation: the first free id is taken from the first row alone.
FirstFreeId_FromFirstRow(lbls) == IF lbls[1] = NOISE THEN 0 ELSE lbls[1] + 1

\* next_cluster_id = final_labels.max() + 1
FirstFreeId_NoPlusOne(lbls) == SeqMax(lbls)
FirstFreeId(lbls) == SeqMax(lbls) + 1

\* Mutation: the fast path gives every frame scene id 1.
CF_FastPath_OneBased ==
    /\ cf_pc = "start"
    /\ Len(cf_frames) < 2
    /\ cf_mapping' = [p \in {cf_frames[k].path : k \in DOMAIN cf_frames} |-> 1]
    /\ cf_pc' = "done"
    /\ UNCHANGED <<cf_frames, cf_df, cf_reduced, cf_labels, cf_final, cf_next,
                   cf_in_noise, cf_current, cf_i>>
    /\ UNCHANGED OtherThanCluster

\* Fast path: fewer than two frames.
CF_FastPath ==
    /\ cf_pc = "start"
    /\ Len(cf_frames) < 2
    /\ cf_mapping' = ZeroMapping(cf_frames)
    /\ cf_pc' = "done"
    /\ UNCHANGED <<cf_frames, cf_df, cf_reduced, cf_labels, cf_final, cf_next,
                   cf_in_noise, cf_current, cf_i>>
    /\ UNCHANGED OtherThanCluster

\* Data preparation: sort by index.
CF_Prepare ==
    /\ cf_pc = "start"
    /\ Len(cf_frames) >= 2
    /\ cf_df' = SortByIndex(cf_frames)
    /\ cf_pc' = "reduce"
    /\ UNCHANGED <<cf_frames, cf_reduced, cf_labels, cf_final, cf_next,
                   cf_in_noise, cf_current, cf_i, cf_mapping>>
    /\ UNCHANGED OtherThanCluster

\* UMAP reduction (external capability; its output only feeds HDBSCAN).
CF_Reduce ==
    /\ cf_pc = "reduce"
    /\ cf_reduced' = TRUE
    /\ cf_pc' = "cluster"
    /\ UNCHANGED <<cf_frames, cf_df, cf_labels, cf_final, cf_next,
                   cf_in_noise, cf_current, cf_i, cf_mapping>>
    /\ UNCHANGED OtherThanCluster

\* HDBSCAN (external capability): one label per row, -1 for noise; then the
\* set-up of the resegmentation walk.
CF_Cluster ==
    /\ cf_pc = "cluster"
    /\ \E lbls \in SeqsOfLen(NOISE..MaxLabel, Len(cf_df)) :
          /\ cf_labels' = lbls
          /\ cf_final' = lbls
          /\ cf_next' = FirstFreeId(lbls)
    /\ cf_in_noise' = FALSE
    /\ cf_i' = 1
    /\ cf_pc' = "loop"
    /\ UNCHANGED <<cf_frames, cf_df, cf_reduced, cf_current, cf_mapping>>
    /\ UNCHANGED OtherThanCluster

\* Mutation: the frame after a noise run is given the id of that run.
NoiseStep_CarryNoiseId(st, lbl) ==
    IF lbl = NOISE /\ ~st.in_noise
    THEN [next |-> st.next + 1, in_noise |-> TRUE, current |-> st.next]
    ELSE IF lbl # NOISE
    THEN [next |-> st.next, in_noise |-> FALSE,
          current |-> IF st.in_noise THEN st.current ELSE lbl]
    ELSE st

\* Mutation: next_cluster_id is not advanced when an id is minted.
NoiseStep_ReuseId(st, lbl) ==
    IF lbl = NOISE /\ ~st.in_noise
    THEN [next |-> st.next, in_noise |-> TRUE, current |-> st.next]
    ELSE IF lbl # NOISE
    THEN [next |-> st.next, in_noise |-> FALSE, current |-> lbl]
    ELSE st

\* The body of `for i, lbl in enumerate(labels)` on the locals
\* st = [next, in_noise, current]: the locals after the iteration.
NoiseStep(st, lbl) ==
    IF lbl = NOISE /\ ~st.in_noise
    THEN [next |-> st.next + 1, in_noise |-> TRUE, current |-> st.next]
    ELSE IF lbl # NOISE
    THEN [next |-> st.next, in_noise |-> FALSE, current |-> lbl]
    ELSE st

\* One iteration of the loop.
CF_LoopStep ==
    /\ cf_pc = "loop"
    /\ cf_i <= Len(cf_labels)
    /\ LET st == NoiseStep([next |-> cf_next, in_noise |-> cf_in_noise,
                            current |-> cf_current], cf_labels[cf_i])
       IN  /\ cf_current' = st.current
           /\ cf_next' = st.next
           /\ cf_in_noise' = st.in_noise
           /\ cf_final' = [cf_final EXCEPT ![cf_i] = st.current]
    /\ cf_i' = cf_i + 1
    /\ UNCHANGED <<cf_pc, cf_frames, cf_df, cf_reduced, cf_labels, cf_mapping>>
    /\ UNCHANGED OtherThanCluster

\* Loop exhausted: build the mapping, save it, return it.
CF_Finish ==
    /\ cf_pc = "loop"
    /\ cf_i > Len(cf_labels)
    /\ cf_mapping' = ZipMapping(cf_df, cf_final)
    /\ cf_pc' = "done"
    /\ UNCHANGED <<cf_frames, cf_df, cf_reduced, cf_labels, cf_final, cf_next,
                   cf_in_noise, cf_current, cf_i>>
    /\ UNCHANGED OtherThanCluster

\* The whole resegmentation walk from row i on, as one value.
RECURSIVE ResegmentFrom(_, _, _, _)
ResegmentFrom(labels, i, st, final) ==
    IF i > Len(labels) THEN final
    ELSE LET nx == NoiseStep(st, labels[i])
         IN  ResegmentFrom(labels, i + 1, nx, [final EXCEPT ![i] = nx.current])
Resegment(labels) ==
    ResegmentFrom(labels, 1,
                  [next |-> FirstFreeId(labels), in_noise |-> FALSE, current |-> UNSET],
                  labels)

\* run as a function of its frames and of the labels HDBSCAN returns.
ClusterFramesRun(frames, labels) ==
    IF Len(frames) < 2 THEN ZeroMapping(frames)
    ELSE ZipMapping(SortByIndex(frames), Resegment(labels))

ClusterNext ==
    \/ CF_FastPath
    \/ CF_Prepare
    \/ CF_Reduce
    \/ CF_Cluster
    \/ CF_LoopStep
    \/ CF_Finish

\* =========================================================================
\* clipper.run
\* =========================================================================

\* The timestamps (seconds) a frame handed to clipper.run may carry: block
\* durations below, at and above both maxima, multiples of them and not.
TimeSet == {0, 100, 240, 360, 500, 600}

\* Frames as extract_frames emits them: the k-th kept frame has index k and
\* path frame k, and timestamps grow with the index.
RECURSIVE FramesAt(_, _)
FramesAt(times, k) ==
    IF times = {} THEN <<>>
    ELSE LET t == SetMin(times)
         IN  <<[index |-> k, timestamp |-> t, path |-> FramePath(k)]>>
             \o FramesAt(times \ {t}, k + 1)

ClipperFrameLists ==
    UNION {{FramesAt(ts, 0), Reverse(FramesAt(ts, 0))} :
              ts \in {S \in SUBSET TimeSet : Cardinality(S) <= MaxClipFrames}}

\* Every scene assignment over a subset of the paths of fs.
PathsOf(fs) == {fs[k].path : k \in DOMAIN fs}
PartialAssignments(fs) ==
    UNION {[P -> 0..MaxSceneId] : P \in SUBSET PathsOf(fs)}

\* clips.json: absent, or present with a clip list.
NotWritten == [written |-> FALSE, content |-> <<>>]
Written(clips) == [written |-> TRUE, content |-> clips]

ClipperIdle ==
    /\ cl_pc = "idle"
    /\ cl_frames = <<>>
    /\ cl_clusters = <<>>
    /\ cl_video_exists = TRUE
    /\ cl_max = DEFAULT_MAX_CLIP_SECONDS
    /\ cl_df = <<>>
    /\ cl_blocks = <<>>
    /\ cl_seq = 0
    /\ cl_chunk_idx = 0
    /\ cl_meta = <<>>
    /\ cl_attempts = <<>>
    /\ cl_json = NotWritten
    /\ cl_error = "none"

ClipperInit ==
    /\ cl_pc = "start"
    /\ cl_frames \in ClipperFrameLists
    /\ cl_clusters \in PartialAssignments(cl_frames)
    /\ cl_video_exists \in BOOLEAN
    /\ cl_max \in {DEFAULT_MAX_CLIP_SECONDS, CLIP_MAX_LENGTH}
    /\ cl_df = <<>>
    /\ cl_blocks = <<>>
    /\ cl_seq = 0
    /\ cl_chunk_idx = 0
    /\ cl_meta = <<>>
    /\ cl_attempts = <<>>
    /\ cl_json = NotWritten
    /\ cl_error = "none"

\* missing_clusters = [f["path"] for f in df if f["path"] not in clusters]
MissingClusters(df, clusters) ==
    SelectSeq([k \in DOMAIN df |-> df[k].path], LAMBDA p : p \notin DOMAIN clusters)

\* The block walk over df[1:], from frame j on (1-based), with the locals
\* current_cluster, block_start and last_ts; ends with the trailing append.
RECURSIVE WalkBlocks(_, _, _, _, _, _)
WalkBlocks(df, clusters, j, current_cluster, block_start, last_ts) ==
    IF j > Len(df)
    THEN <<[cid |-> current_cluster, start |-> block_start, end |-> last_ts]>>
    ELSE LET ts == df[j].timestamp
             cid == clusters[df[j].path]
         IN  IF cid # current_cluster
             THEN <<[cid |-> current_cluster, start |-> block_start, end |-> last_ts]>>
                  \o WalkBlocks(df, clusters, j + 1, cid, ts, ts)
             ELSE WalkBlocks(df, clusters, j + 1, current_cluster, block_start, ts)

ClipBlocks(df, clusters) ==
    WalkBlocks(df, clusters, 2, clusters[df[1].path], df[1].timestamp, df[1].timestamp)

Max2(a, b) == IF a >= b THEN a ELSE b
Min2(a, b) == IF a <= b THEN a ELSE b
\* math.ceil(a / b) for b > 0
CeilDiv(a, b) == IF a <= 0 THEN 0 - ((0 - a) \div b) ELSE (a + b - 1) \div b

\* n_chunks = max(1, math.ceil(duration / max_clip_seconds))
NChunks(duration, max_clip_seconds) == Max2(1, CeilDiv(duration, max_clip_seconds))

\* Mutation: a chunk is at most half the maximum long.
ChunkLen_HalfMax(duration, max_clip_seconds) == Min2(duration, max_clip_seconds \div 2)

\* chunk_len = min(duration, max_clip_seconds)
ChunkLen_Even(duration, max_clip_seconds) ==
    CeilDiv(duration, NChunks(duration, max_clip_seconds))
ChunkLen(duration, max_clip_seconds) == Min2(duration, max_clip_seconds)

\* chunk_start = start + chunk_idx * chunk_len
ChunkStart(start, chunk_idx, chunk_len) == start + chunk_idx * chunk_len
\* Mutation: the last chunk is not cut at the block's end.
ChunkEnd_Unclamped(chunk_start, chunk_len, end) == chunk_start + chunk_len

\* chunk_end = min(chunk_start + chunk_len, end)
ChunkEnd(chunk_start, chunk_len, end) == Min2(chunk_start + chunk_len, end)

\* out_name = f"clip_{seq:03d}_{chunk_idx}.mp4"
OutName(seq, chunk_idx) == <<"clip", seq, chunk_idx>>

\* The record appended to clips_meta for a written chunk.
ClipRecord(seq, chunk_idx, chunk_start, chunk_end, cid) ==
    [path |-> <<"clips", OutName(seq, chunk_idx)>>,
     start |-> chunk_start, end |-> chunk_end, cluster_id |-> cid]

\* Where the chunk loop goes after an encode raised: `continue`.
AfterEncodeFailure_Break(chunk_idx, n_chunks) == n_chunks
AfterEncodeFailure(chunk_idx, n_chunks) == chunk_idx + 1

clUnchangedInputs == <<cl_frames, cl_clusters, cl_video_exists, cl_max>>

\* if not video_path.exists(): raise FileNotFoundError
CL_VideoMissing ==
    /\ cl_pc = "start"
    /\ ~cl_video_exists
    /\ cl_pc' = "raised"
    /\ cl_error' = "FileNotFoundError"
    /\ UNCHANGED <<clUnchangedInputs, cl_df, cl_blocks, cl_seq, cl_chunk_idx,
                   cl_meta, cl_attempts, cl_json>>
    /\ UNCHANGED OtherThanClipper

\* if not frames: write an empty clips.json, return []
CL_EmptyFrames ==
    /\ cl_pc = "start"
    /\ cl_video_exists
    /\ cl_frames = <<>>
    /\ cl_json' = Written(<<>>)
    /\ cl_pc' = "done"
    /\ UNCHANGED <<clUnchangedInputs, cl_df, cl_blocks, cl_seq, cl_chunk_idx,
                   cl_meta, cl_attempts, cl_error>>
    /\ UNCHANGED OtherThanClipper

\* Mutation: the emptiness check is gone, the missing-entry check raises.
CL_EmptyClusters_Raise ==
    /\ cl_pc = "start"
    /\ cl_video_exists
    /\ cl_frames # <<>>
    /\ DOMAIN cl_clusters = {}
    /\ cl_df' = SortByIndex(cl_frames)
    /\ cl_pc' = "raised"
    /\ cl_error' = "ValueError"
    /\ UNCHANGED <<clUnchangedInputs, cl_blocks, cl_seq, cl_chunk_idx, cl_meta,
                   cl_attempts, cl_json>>
    /\ UNCHANGED OtherThanClipper

\* if not clusters: write an empty clips.json, return []
CL_EmptyClusters ==
    /\ cl_pc = "start"
    /\ cl_video_exists
    /\ cl_frames # <<>>
    /\ DOMAIN cl_clusters = {}
    /\ cl_json' = Written(<<>>)
    /\ cl_pc' = "done"
    /\ UNCHANGED <<clUnchangedInputs, cl_df, cl_blocks, cl_seq, cl_chunk_idx,
                   cl_meta, cl_attempts, cl_error>>
    /\ UNCHANGED OtherThanClipper

\* Mutation: frames without a scene id are dropped and the run goes on.
CL_MissingClusters_Skip ==
    /\ cl_pc = "start"
    /\ cl_video_exists
    /\ cl_frames # <<>>
    /\ DOMAIN cl_clusters # {}
    /\ MissingClusters(SortByIndex(cl_frames), cl_clusters) # <<>>
    /\ cl_df' = SelectSeq(SortByIndex(cl_frames), LAMBDA f : f.path \in DOMAIN cl_clusters)
    /\ cl_blocks' = ClipBlocks(cl_df', cl_clusters)
    /\ cl_pc' = "open"
    /\ UNCHANGED <<clUnchangedInputs, cl_seq, cl_chunk_idx, cl_meta, cl_attempts,
                   cl_json, cl_error>>
    /\ UNCHANGED OtherThanClipper

\* Sort by index; some frame has no scene id: raise ValueError.
CL_MissingClusters ==
    /\ cl_pc = "start"
    /\ cl_video_exists
    /\ cl_frames # <<>>
    /\ DOMAIN cl_clusters # {}
    /\ MissingClusters(SortByIndex(cl_frames), cl_clusters) # <<>>
    /\ cl_df' = SortByIndex(cl_frames)
    /\ cl_pc' = "raised"
    /\ cl_error' = "ValueError"
    /\ UNCHANGED <<clUnchangedInputs, cl_blocks, cl_seq, cl_chunk_idx, cl_meta,
                   cl_attempts, cl_json>>
    /\ UNCHANGED OtherThanClipper

\* Mutation: the timeline is walked in the order of the frames argument.
CL_BuildBlocks_NoSort ==
    /\ cl_pc = "start"
    /\ cl_video_exists
    /\ cl_frames # <<>>
    /\ DOMAIN cl_clusters # {}
    /\ MissingClusters(cl_frames, cl_clusters) = <<>>
    /\ cl_df' = cl_frames
    /\ cl_blocks' = ClipBlocks(cl_df', cl_clusters)
    /\ cl_pc' = "open"
    /\ UNCHANGED <<clUnchangedInputs, cl_seq, cl_chunk_idx, cl_meta, cl_attempts,
                   cl_json, cl_error>>
    /\ UNCHANGED OtherThanClipper

\* Sort by index; every frame has a scene id: build clip_blocks.
CL_BuildBlocks ==
    /\ cl_pc = "start"
    /\ cl_video_exists
    /\ cl_frames # <<>>
    /\ DOMAIN cl_clusters # {}
    /\ MissingClusters(SortByIndex(cl_frames), cl_clusters) = <<>>
    /\ cl_df' = SortByIndex(cl_frames)
    /\ cl_blocks' = ClipBlocks(cl_df', cl_clusters)
    /\ cl_pc' = "open"
    /\ UNCHANGED <<clUnchangedInputs, cl_seq, cl_chunk_idx, cl_meta, cl_attempts,
                   cl_json, cl_error>>
    /\ UNCHANGED OtherThanClipper

\* with VideoFileClip(str(video_path)) as video: the decoder opens the file.
CL_OpenVideo ==
    /\ cl_pc = "open"
    /\ cl_seq' = 0
    /\ cl_pc' = "block"
    /\ UNCHANGED <<clUnchangedInputs, cl_df, cl_blocks, cl_chunk_idx, cl_meta,
                   cl_attempts, cl_json, cl_error>>
    /\ UNCHANGED OtherThanClipper

\* ... or raises (an unreadable container): nothing catches it.
CL_OpenVideoFails ==
    /\ cl_pc = "open"
    /\ cl_pc' = "raised"
    /\ cl_error' = "OSError"
    /\ UNCHANGED <<clUnchangedInputs, cl_df, cl_blocks, cl_seq, cl_chunk_idx,
                   cl_meta, cl_attempts, cl_json>>
    /\ UNCHANGED OtherThanClipper

CurrentBlock == cl_blocks[cl_seq + 1]
CurrentDuration == CurrentBlock.end - CurrentBlock.start

\* Mutation: a block of non-positive duration is fatal.
CL_SkipBlock_Raise ==
    /\ cl_pc = "block"
    /\ cl_seq < Len(cl_blocks)
    /\ CurrentDuration <= 0
    /\ cl_seq' = cl_seq + 1
    /\ cl_pc' = "raised"
    /\ cl_error' = "ValueError"
    /\ UNCHANGED <<clUnchangedInputs, cl_df, cl_blocks, cl_chunk_idx, cl_meta,
                   cl_attempts, cl_json>>
    /\ UNCHANGED OtherThanClipper

\* Block loop: a block of non-positive duration is skipped.
CL_SkipBlock ==
    /\ cl_pc = "block"
    /\ cl_seq < Len(cl_blocks)
    /\ CurrentDuration <= 0
    /\ cl_seq' = cl_seq + 1
    /\ UNCHANGED <<clUnchangedInputs, cl_pc, cl_df, cl_blocks, cl_chunk_idx, cl_meta,
                   cl_attempts, cl_json, cl_error>>
    /\ UNCHANGED OtherThanClipper

\* Block loop: a block of positive duration enters the chunk loop.
CL_EnterBlock ==
    /\ cl_pc = "block"
    /\ cl_seq < Len(cl_blocks)
    /\ CurrentDuration > 0
    /\ cl_chunk_idx' = 0
    /\ cl_pc' = "chunk"
    /\ UNCHANGED <<clUnchangedInputs, cl_df, cl_blocks, cl_seq, cl_meta,
                   cl_attempts, cl_json, cl_error>>
    /\ UNCHANGED OtherThanClipper

CurrentNChunks == NChunks(CurrentDuration, cl_max)
CurrentChunkLen == ChunkLen(CurrentDuration, cl_max)
CurrentChunkStart == ChunkStart(CurrentBlock.start, cl_chunk_idx, CurrentChunkLen)
CurrentChunkEnd == ChunkEnd(CurrentChunkStart, CurrentChunkLen, CurrentBlock.end)

Attempt(ok) ==
    [name |-> OutName(cl_seq, cl_chunk_idx), start |-> CurrentChunkStart,
     end |-> CurrentChunkEnd, cid |-> CurrentBlock.cid, ok |-> ok]

\* Chunk loop: a chunk of non-positive duration is skipped; otherwise the
\* encoder writes the chunk and its record is appended.
CL_EncodeChunk ==
    /\ cl_pc = "chunk"
    /\ cl_chunk_idx < CurrentNChunks
    /\ IF CurrentChunkEnd - CurrentChunkStart <= 0
       THEN UNCHANGED <<cl_meta, cl_attempts>>
       ELSE /\ cl_attempts' = Append(cl_attempts, Attempt(TRUE))
            /\ cl_meta' = Append(cl_meta,
                   ClipRecord(cl_seq, cl_chunk_idx, CurrentChunkStart, CurrentChunkEnd,
                              CurrentBlock.cid))
    /\ cl_chunk_idx' = cl_chunk_idx + 1
    /\ UNCHANGED <<clUnchangedInputs, cl_pc, cl_df, cl_blocks, cl_seq, cl_json, cl_error>>
    /\ UNCHANGED OtherThanClipper

\* Chunk loop: the encoder raises; the except clause logs and continues.
CL_EncodeFails ==
    /\ cl_pc = "chunk"
    /\ cl_chunk_idx < CurrentNChunks
    /\ CurrentChunkEnd - CurrentChunkStart > 0
    /\ cl_attempts' = Append(cl_attempts, Attempt(FALSE))
    /\ cl_chunk_idx' = AfterEncodeFailure(cl_chunk_idx, CurrentNChunks)
    /\ UNCHANGED <<clUnchangedInputs, cl_pc, cl_df, cl_blocks, cl_seq, cl_meta,
                   cl_json, cl_error>>
    /\ UNCHANGED OtherThanClipper

\* Chunk loop exhausted: next block.
CL_NextBlock ==
    /\ cl_pc = "chunk"
    /\ cl_chunk_idx >= CurrentNChunks
    /\ cl_seq' = cl_seq + 1
    /\ cl_pc' = "block"
    /\ UNCHANGED <<clUnchangedInputs, cl_df, cl_blocks, cl_chunk_idx, cl_meta,
                   cl_attempts, cl_json, cl_error>>
    /\ UNCHANGED OtherThanClipper

\* Block loop exhausted: write clips.json, return clips_meta.
CL_WriteJson ==
    /\ cl_pc = "block"
    /\ cl_seq >= Len(cl_blocks)
    /\ cl_json' = Written(cl_meta)
    /\ cl_pc' = "done"
    /\ UNCHANGED <<clUnchangedInputs, cl_df, cl_blocks, cl_seq, cl_chunk_idx, cl_meta,
                   cl_attempts, cl_error>>
    /\ UNCHANGED OtherThanClipper

\* The chunk loop of one block from chunk_idx on: the encode calls it makes.
RECURSIVE ChunkLoop(_, _, _, _)
ChunkLoop(seq, b, M, chunk_idx) ==
    LET duration == b.end - b.start
        chunk_len == ChunkLen(duration, M)
        chunk_start == ChunkStart(b.start, chunk_idx, chunk_len)
        chunk_end == ChunkEnd(chunk_start, chunk_len, b.end)
    IN  IF chunk_idx >= NChunks(duration, M) THEN <<>>
        ELSE (IF chunk_end - chunk_start <= 0 THEN <<>>
              ELSE <<ClipRecord(seq, chunk_idx, chunk_start, chunk_end, b.cid)>>)
             \o ChunkLoop(seq, b, M, chunk_idx + 1)

\* The block loop from block seq on.
RECURSIVE BlockLoop(_, _, _)
BlockLoop(blocks, seq, M) ==
    IF seq >= Len(blocks) THEN <<>>
    ELSE (IF blocks[seq + 1].end - blocks[seq + 1].start <= 0 THEN <<>>
          ELSE ChunkLoop(seq, blocks[seq + 1], M, 0))
         \o BlockLoop(blocks, seq + 1, M)

\* run as a function of its arguments and of the set of chunk names whose
\* encode raises: [error, clips].
ClipperRun(frames, clusters, video_exists, M, failed) ==
    IF ~video_exists THEN [error |-> "FileNotFoundError", clips |-> <<>>]
    ELSE IF frames = <<>> \/ DOMAIN clusters = {} THEN [error |-> "none", clips |-> <<>>]
    ELSE IF MissingClusters(SortByIndex(frames), clusters) # <<>>
    THEN [error |-> "ValueError", clips |-> <<>>]
    ELSE [error |-> "none",
          clips |-> SelectSeq(BlockLoop(ClipBlocks(SortByIndex(frames), clusters), 0, M),
                              LAMBDA r : r.path[2] \notin failed)]

ClipperNext ==
    \/ CL_VideoMissing
    \/ CL_EmptyFrames
    \/ CL_EmptyClusters
    \/ CL_MissingClusters
    \/ CL_BuildBlocks
    \/ CL_OpenVideo
    \/ CL_OpenVideoFails
    \/ CL_SkipBlock
    \/ CL_EnterBlock
    \/ CL_EncodeChunk
    \/ CL_EncodeFails
    \/ CL_NextBlock
    \/ CL_WriteJson

\* =========================================================================
\* select_representative_frames.run
\* =========================================================================

\* Embeddings: a few integer vectors standing for the 512-float CLIP vectors.
EmbeddingSet == {<<0, 0>>, <<2, 0>>, <<0, 1>>}
EmbeddingDims == 1..2

\* Frames as embed_frames returns them (kept frame k at 2k
\* seconds), each with an embedding, in chronological order or reversed.
EmbeddedFrames(embs) ==
    [k \in DOMAIN embs |-> [index |-> k - 1, timestamp |-> 2 * (k - 1),
                            path |-> FramePath(k - 1), embedding |-> embs[k]]]
SelectFrameLists ==
    UNION {{EmbeddedFrames(e), Reverse(EmbeddedFrames(e))} :
              e \in UNION {SeqsOfLen(EmbeddingSet, n) : n \in 0..MaxSelFrames}}

SelectIdle ==
    /\ sr_pc = "idle"
    /\ sr_frames = <<>>
    /\ sr_clusters = <<>>
    /\ sr_grouped = <<>>
    /\ sr_g = 0
    /\ sr_reps = <<>>
    /\ sr_json = NotWritten
    /\ sr_error = "none"

SelectInit ==
    /\ sr_pc = "start"
    /\ sr_frames \in SelectFrameLists
    /\ sr_clusters \in PartialAssignments(sr_frames)
    /\ sr_grouped = <<>>
    /\ sr_g = 0
    /\ sr_reps = <<>>
    /\ sr_json = NotWritten
    /\ sr_error = "none"

\* The regrouping loop from frame j on: a dict of lists keyed by scene id,
\* kept here as a sequence of [cid, items] in key insertion order.
RECURSIVE GroupFold(_, _, _, _)
GroupFold(frames, clusters, j, grouped) ==
    IF j > Len(frames) THEN grouped
    ELSE LET cid == clusters[frames[j].path]
             at == {g \in DOMAIN grouped : grouped[g].cid = cid}
         IN  GroupFold(frames, clusters, j + 1,
                 IF at = {}
                 THEN Append(grouped, [cid |-> cid, items |-> <<frames[j]>>])
                 ELSE LET g == CHOOSE x \in at : TRUE
                      IN  [grouped EXCEPT ![g].items = Append(@, frames[j])])

\* Mutation: a new group is opened whenever the scene id changes.
RECURSIVE GroupFoldContiguous(_, _, _, _)
GroupFoldContiguous(frames, clusters, j, grouped) ==
    IF j > Len(frames) THEN grouped
    ELSE LET cid == clusters[frames[j].path]
             n == Len(grouped)
         IN  GroupFoldContiguous(frames, clusters, j + 1,
                 IF n = 0 \/ grouped[n].cid # cid
                 THEN Append(grouped, [cid |-> cid, items |-> <<frames[j]>>])
                 ELSE [grouped EXCEPT ![n].items = Append(@, frames[j])])
GroupByCluster_Contiguous(frames, clusters) ==
    GroupFoldContiguous(frames, clusters, 1, <<>>)

GroupByCluster(frames, clusters) == GroupFold(frames, clusters, 1, <<>>)

\* Sum of coordinate d over the items' embeddings.
RECURSIVE CoordSum(_, _, _)
CoordSum(items, d, j) ==
    IF j > Len(items) THEN 0 ELSE items[j].embedding[d] + CoordSum(items, d, j + 1)

\* Squares of np.linalg.norm(X - centroid, axis=1), scaled by N * N so that
\* the centroid X.mean(axis=0) needs no division: entry k is
\* sum over d of (N * X[k][d] - sum of column d) squared.
RECURSIVE SquareSum(_, _, _)
SquareSum(items, k, D) ==
    IF D = {} THEN 0
    ELSE LET d == CHOOSE x \in D : TRUE
             v == Len(items) * items[k].embedding[d] - CoordSum(items, d, 1)
         IN  v * v + SquareSum(items, k, D \ {d})
ScaledSquaredDists(items) == [k \in DOMAIN items |-> SquareSum(items, k, EmbeddingDims)]

\* Mutation: the first member of the group is taken whatever its distance.
ArgMin_FirstPosition(dists) == 1

\* dists.argmin(): the first position of the minimum (1-based here).
ArgMin(dists) == SetMin({k \in DOMAIN dists : \A j \in DOMAIN dists : dists[k] <= dists[j]})

\* The record appended for one group.
Representative(cid, best) ==
    [cluster |-> cid, timestamp |-> best.timestamp, index |-> best.index,
     path |-> best.path, embedding |-> best.embedding]

\* Regroup frames by scene id.
SR_Group ==
    /\ sr_pc = "start"
    /\ PathsOf(sr_frames) \subseteq DOMAIN sr_clusters
    /\ sr_grouped' = GroupByCluster(sr_frames, sr_clusters)
    /\ sr_g' = 1
    /\ sr_pc' = "pick"
    /\ UNCHANGED <<sr_frames, sr_clusters, sr_reps, sr_json, sr_error>>
    /\ UNCHANGED OtherThanSelect

\* clusters[meta["path"]] on a frame without a scene id: KeyError.
SR_GroupFails ==
    /\ sr_pc = "start"
    /\ ~(PathsOf(sr_frames) \subseteq DOMAIN sr_clusters)
    /\ sr_pc' = "raised"
    /\ sr_error' = "KeyError"
    /\ UNCHANGED <<sr_frames, sr_clusters, sr_grouped, sr_g, sr_reps, sr_json>>
    /\ UNCHANGED OtherThanSelect

\* One iteration of `for cid, items in grouped.items()`.
SR_Pick ==
    /\ sr_pc = "pick"
    /\ sr_g <= Len(sr_grouped)
    /\ LET items == sr_grouped[sr_g].items
           best == items[ArgMin(ScaledSquaredDists(items))]
       IN  sr_reps' = Append(sr_reps, Representative(sr_grouped[sr_g].cid, best))
    /\ sr_g' = sr_g + 1
    /\ UNCHANGED <<sr_pc, sr_frames, sr_clusters, sr_grouped, sr_json, sr_error>>
    /\ UNCHANGED OtherThanSelect

\* Write representatives.json, return the list.
SR_Return ==
    /\ sr_pc = "pick"
    /\ sr_g > Len(sr_grouped)
    /\ sr_json' = Written(sr_reps)
    /\ sr_pc' = "done"
    /\ UNCHANGED <<sr_frames, sr_clusters, sr_grouped, sr_g, sr_reps, sr_error>>
    /\ UNCHANGED OtherThanSelect

\* The loop over grouped from group g on: the representatives it appends.
RECURSIVE PickLoop(_, _)
PickLoop(grouped, g) ==
    IF g > Len(grouped) THEN <<>>
    ELSE LET items == grouped[g].items
         IN  <<Representative(grouped[g].cid, items[ArgMin(ScaledSquaredDists(items))])>>
             \o PickLoop(grouped, g + 1)

\* run as a function of its arguments (every frame has a scene id).
SelectRun(frames, clusters) == PickLoop(GroupByCluster(frames, clusters), 1)

SelectNext ==
    \/ SR_Group
    \/ SR_GroupFails
    \/ SR_Pick
    \/ SR_Return

\* =========================================================================
\* config.py memory guard, video_io.py, extract_frames.py, pipeline.py: run
\* =========================================================================

\* A rate in frames per second is the fraction <<numerator, denominator>>.
\* The rates OpenCV reports for the videos considered: 0 (unknown), 1 and
\* one frame every 100 seconds.
FpsChoices == {<<0, 1>>, <<1, 1>>, <<1, 100>>}

\* What the frames of a video show: the same picture throughout, or a
\* picture that changes from one kept frame to the next.
VideoContents == {"still", "moving"}

\* The videos handed to run.  as_str: video_path is a str, not a Path.
NoVideo ==
    [exists |-> FALSE, as_str |-> FALSE, fps |-> <<1, 1>>, nframes |-> 0,
     content |-> "still"]
Videos ==
    {NoVideo} \cup
    [exists : {TRUE}, as_str : BOOLEAN, fps : FpsChoices,
     nframes : 0..MaxNativeFrames, content : VideoContents]

\* psutil.virtual_memory() as get_memory_usage reads it: used and total
\* megabytes and the percentage in use.
MemReadings ==
    { [used_mb |-> 300, total_mb |-> 8000, percent |-> 40],
      [used_mb |-> 460, total_mb |-> 8000, percent |-> 40],
      [used_mb |-> 300, total_mb |-> 320, percent |-> 95],
      [used_mb |-> 460, total_mb |-> 20000, percent |-> 3],
      [used_mb |-> 12000, total_mb |-> 8000, percent |-> 99] }

\* Mutation: the RENDER flag is not consulted.
PsutilAvailable_IgnoreRender(installed, is_render) == installed

\* PSUTIL_AVAILABLE = True and not IS_RENDER, or False when the import fails.
PsutilAvailable(installed, is_render) == installed /\ ~is_render

\* What get_memory_usage returns when it cannot report.
Unavailable == [available |-> FALSE, percent |-> 0, used_mb |-> 0, total_mb |-> 0]

\* Mutation: the reading is reported as psutil gives it, however large.
GetMemoryUsage_NoSanity(psutil_available, m) ==
    IF ~psutil_available THEN Unavailable
    ELSE [available |-> TRUE, percent |-> m.percent, used_mb |-> m.used_mb,
          total_mb |-> m.total_mb]

\* get_memory_usage on the reading m.
GetMemoryUsage(psutil_available, m) ==
    IF ~psutil_available THEN Unavailable
    ELSE IF m.used_mb > MEMORY_SANITY_MB \/ m.total_mb > MEMORY_SANITY_MB
    THEN Unavailable
    ELSE [available |-> TRUE, percent |-> m.percent, used_mb |-> m.used_mb,
          total_mb |-> m.total_mb]

\* check_memory_limit on the reading m: TRUE when usage is within limits.
CheckMemoryLimit(psutil_available, m) ==
    LET memory_info == GetMemoryUsage(psutil_available, m)
    IN  IF ~memory_info.available THEN TRUE
        ELSE IF memory_info.used_mb > MAX_MEMORY_MB THEN FALSE
        ELSE IF memory_info.percent > MEMORY_CRITICAL_PERCENT THEN FALSE
        ELSE TRUE

\* Mutation: halves are rounded up.
RoundHalfUp(a, b) ==
    LET q == a \div b
        r == a % b
    IN  IF 2 * r < b THEN q ELSE q + 1

\* round(a / b) for a >= 0, b > 0: Python rounds halves to the even integer.
RoundHalfEven(a, b) ==
    LET q == a \div b
        r == a % b
    IN  IF 2 * r < b THEN q
        ELSE IF 2 * r > b THEN q + 1
        ELSE IF q % 2 = 0 THEN q ELSE q + 1

\* if fps < 1e-3: fps = _FPS_FALLBACK
SanitizeFps(fps) == IF fps[1] * 1000 < fps[2] THEN <<FPS_FALLBACK, 1>> ELSE fps

\* get_video_props on an existing, readable video.
GetVideoProps(video) ==
    LET fps == SanitizeFps(video.fps)
    IN  [fps |-> fps, frame_count |-> video.nframes,
         duration |-> IF video.nframes # 0
                      THEN (video.nframes * fps[2]) \div fps[1] ELSE 0]

\* step = max(int(round(props.fps / config.FRAME_RATE)), 1)
FrameStep(fps) ==
    Max2(RoundHalfEven(fps[1] * FRAME_RATE_DEN, fps[2] * FRAME_RATE_NUM), 1)

\* timestamp = frame_idx / props.fps, as the fraction <<seconds * d, d>>.
TimestampOf(frame_idx, fps) == <<frame_idx * fps[2], fps[1]>>

\* A time in seconds that is a whole number, as that number.
WholeSeconds(t) == t[1] \div t[2]

\* The read loop of extract_frames.run from native frame frame_idx on: the
\* records it appends.  The timestamp is a whole number of seconds for
\* every rate in FpsChoices and every frame kept.
RECURSIVE ExtractLoop(_, _, _, _)
ExtractLoop(props, step, frame_idx, saved_idx) ==
    IF frame_idx >= props.frame_count THEN <<>>
    ELSE IF frame_idx % step = 0
    THEN <<[timestamp |-> WholeSeconds(TimestampOf(frame_idx, props.fps)),
            index |-> saved_idx, path |-> FramePath(saved_idx)]>>
         \o ExtractLoop(props, step, frame_idx + 1, saved_idx + 1)
    ELSE ExtractLoop(props, step, frame_idx + 1, saved_idx)

\* extract_frames.run as a function of the video.
ExtractFrames(video) ==
    LET props == GetVideoProps(video)
    IN  ExtractLoop(props, FrameStep(props.fps), 0, 0)

\* The CLIP embedding of a kept frame, a function of the picture it shows:
\* a vector of length one (normalize(features, dim=-1)).
PixelEmbedding(content, f) ==
    IF content = "still" \/ f.index % 2 = 0 THEN <<1, 0>> ELSE <<0, 1>>

\* embed_frames.run: the same frames in the same order, each with its
\* embedding.
EmbedFrames(content, frames) ==
    [k \in DOMAIN frames |->
        [timestamp |-> frames[k].timestamp, index |-> frames[k].index,
         path |-> frames[k].path, embedding |-> PixelEmbedding(content, frames[k])]]

\* The labels the density clustering may return in a pipeline run.
PipeLabels == {NOISE, 0}

\* label_representative_frames.run: every representative gains "labels",
\* the parsed answer or {"error": ...} for the positions in errs.
LabelReps(reps, errs) ==
    [k \in DOMAIN reps |->
        [cluster |-> reps[k].cluster, timestamp |-> reps[k].timestamp,
         index |-> reps[k].index, path |-> reps[k].path,
         embedding |-> reps[k].embedding,
         labels |-> IF k \in errs THEN "error" ELSE "labels"]]

\* The statements of the try block of run, in program order.
Cp(stage) == [op |-> "checkpoint", arg |-> stage]
Cm == [op |-> "check_memory", arg |-> "check_memory"]
Call(fn) == [op |-> "call", arg |-> fn]
\* A stage call that returned, and one that raised.
Returned(fn) == [op |-> "returned", arg |-> fn]
Raised(fn) == [op |-> "raised", arg |-> fn]
PipelineBody ==
    << Cp("Initializing"), Cm, Call("new_run_dir"), Cp("Workspace created"),
       Cp("Analyzing video"), Cm, Call("get_video_props"),
       Cp("Video analysis complete"),
       Cp("Extracting frames"), Cm, Call("extract_frames"),
       Cp("Frame extraction complete"), Cm,
       Cp("Computing embeddings"), Cm, Call("embed_frames"),
       Cp("Embeddings complete"), Cm,
       Cp("Clustering frames"), Cm, Call("cluster_frames"),
       Cp("Clustering complete"), Cm,
       Cp("Selecting representatives"), Cm, Call("choose_reps"),
       Cp("Representative selection complete"), Cm,
       Cp("Labeling frames"), Cm, Call("label_reps"),
       Cp("Labeling complete"), Cm,
       Cp("Generating clips"), Cm, Call("clipper"),
       Cp("Clip generation complete"), Cm,
       Cp("Writing metadata"), Cm, Call("write_meta"),
       Cp("Pipeline complete"), Cm >>

\* The stage calls of run, in program order.
StageCalls ==
    << "new_run_dir", "get_video_props", "extract_frames", "embed_frames",
       "cluster_frames", "choose_reps", "label_reps", "clipper", "write_meta" >>

\* The locals of run before any of them is assigned.
NoLocals ==
    [run_dir |-> FALSE,
     props |-> [fps |-> <<0, 1>>, frame_count |-> 0, duration |-> 0],
     frames |-> <<>>, embedded_frames |-> <<>>, clusters |-> <<>>,
     representatives |-> <<>>, labeled_reps |-> <<>>, clips |-> <<>>]

\* The run directory before any stage has written into it.
EmptyTree == [frames |-> {}, clips |-> {}, clips_json |-> NotWritten]

NoError == [kind |-> "none", stage |-> "none"]
NoTrip == [tripped |-> FALSE, used_mb |-> 0, percent |-> 0]

PipelineIdle ==
    /\ pl_status = "idle"
    /\ pl_pc = 1
    /\ pl_video = NoVideo
    /\ pl_is_render = FALSE
    /\ pl_sink = "none"
    /\ pl_locals = NoLocals
    /\ pl_checkpoints = <<>>
    /\ pl_sink_calls = <<>>
    /\ pl_sink_failed = FALSE
    /\ pl_executed = <<>>
    /\ pl_guard = NoTrip
    /\ pl_after_trip = FALSE
    /\ pl_error = NoError
    /\ pl_raised = NoError
    /\ pl_meta = NotWritten
    /\ pl_trace = <<>>
    /\ pl_run_tree = EmptyTree

PipelineInit ==
    /\ pl_status = "running"
    /\ pl_pc = 1
    /\ pl_video \in Videos
    /\ pl_is_render \in BOOLEAN
    /\ pl_sink \in {"none", "callable"}
    /\ pl_locals = NoLocals
    /\ pl_checkpoints = <<>>
    /\ pl_sink_calls = <<>>
    /\ pl_sink_failed = FALSE
    /\ pl_executed = <<>>
    /\ pl_guard = NoTrip
    /\ pl_after_trip = FALSE
    /\ pl_error = NoError
    /\ pl_raised = NoError
    /\ pl_meta = NotWritten
    /\ pl_trace = <<>>
    /\ pl_run_tree = EmptyTree

\* The statement run is about to execute.
StepAt == PipelineBody[pl_pc]
AtStep(op) == pl_status = "running" /\ pl_pc <= Len(PipelineBody) /\ StepAt.op = op
AtCall(fn) == AtStep("call") /\ StepAt.arg = fn

\* The message argument of each checkpoint call: its text and the number
\* formatted into it.
Message(text, n) == [text |-> text, n |-> n, error |-> NoError]
CheckpointMessage(stage, locals) ==
    CASE stage = "Initializing" -> Message("Creating workspace directory", 0)
      [] stage = "Workspace created" -> Message("Directory: ", 0)
      [] stage = "Analyzing video" -> Message("Extracting video properties", 0)
      [] stage = "Video analysis complete" -> Message("Duration: ", locals.props.duration)
      [] stage = "Extracting frames" -> Message("Sampling at FRAME_RATE FPS", 0)
      [] stage = "Frame extraction complete" -> Message("Extracted ", Len(locals.frames))
      [] stage = "Computing embeddings" -> Message("Running CLIP model on frames", 0)
      [] stage = "Embeddings complete" -> Message("Processed ", Len(locals.embedded_frames))
      [] stage = "Clustering frames" -> Message("Running UMAP + HDBSCAN", 0)
      [] stage = "Clustering complete" ->
            Message("Found ", Cardinality(DOMAIN locals.clusters))
      [] stage = "Selecting representatives" ->
            Message("Choosing best frames from each cluster", 0)
      [] stage = "Representative selection complete" ->
            Message("Selected ", Len(locals.representatives))
      [] stage = "Labeling frames" ->
            Message("Generating descriptions via Hugging Face", 0)
      [] stage = "Labeling complete" -> Message("Labeled ", Len(locals.labeled_reps))
      [] stage = "Generating clips" ->
            Message("Creating video clips around representatives", 0)
      [] stage = "Clip generation complete" -> Message("Generated ", Len(locals.clips))
      [] stage = "Writing metadata" -> Message("Creating final output files", 0)
      [] stage = "Pipeline complete" ->
            Message("All processing finished successfully", 0)

\* error_msg = f"Pipeline failed: {str(e)}"
FailureMessage(e) == [text |-> "Pipeline failed: ", n |-> 0, error |-> e]

\* checkpoint(stage, message): log the line and, if a progress callback was
\* given, call it; an exception of the callback is caught and logged.
EmitCheckpoint(stage, message, sink_raises) ==
    /\ pl_checkpoints' = Append(pl_checkpoints, [stage |-> stage, message |-> message])
    /\ pl_sink_calls' = IF pl_sink = "callable"
                        THEN Append(pl_sink_calls, [stage |-> stage, message |-> message])
                        ELSE pl_sink_calls
    /\ pl_sink_failed' = (pl_sink_failed \/ sink_raises)
    /\ pl_trace' = Append(pl_trace, Cp(stage))

plInputs == <<pl_video, pl_is_render, pl_sink>>
plCheckpointVars == <<pl_checkpoints, pl_sink_calls, pl_sink_failed>>
plGuardVars == <<pl_guard, pl_after_trip>>
plFailureVars == <<pl_error, pl_raised>>

PL_Checkpoint ==
    /\ AtStep("checkpoint")
    /\ EmitCheckpoint(StepAt.arg, CheckpointMessage(StepAt.arg, pl_locals), FALSE)
    /\ pl_pc' = pl_pc + 1
    /\ UNCHANGED <<pl_status, plInputs, pl_locals, pl_executed, plGuardVars,
                   plFailureVars, pl_meta, pl_run_tree>>
    /\ UNCHANGED OtherThanPipeline

\* Mutation: an exception of the progress callback escapes checkpoint and
\* reaches the except clause of run.
PL_CheckpointSinkRaises_Propagate ==
    /\ AtStep("checkpoint")
    /\ pl_sink = "callable"
    /\ EmitCheckpoint(StepAt.arg, CheckpointMessage(StepAt.arg, pl_locals), TRUE)
    /\ pl_status' = "handling"
    /\ pl_error' = [kind |-> "Exception", stage |-> "progress_callback"]
    /\ UNCHANGED <<pl_pc, plInputs, pl_locals, pl_executed, plGuardVars, pl_raised,
                   pl_meta, pl_run_tree>>
    /\ UNCHANGED OtherThanPipeline

\* The progress callback raises; checkpoint swallows the exception.
PL_CheckpointSinkRaises ==
    /\ AtStep("checkpoint")
    /\ pl_sink = "callable"
    /\ EmitCheckpoint(StepAt.arg, CheckpointMessage(StepAt.arg, pl_locals), TRUE)
    /\ pl_pc' = pl_pc + 1
    /\ UNCHANGED <<pl_status, plInputs, pl_locals, pl_executed, plGuardVars,
                   plFailureVars, pl_meta, pl_run_tree>>
    /\ UNCHANGED OtherThanPipeline

\* The value check_memory returns: r1 is what check_memory_limit reads
\* first, r2 what it reads after force_memory_cleanup.
CheckMemory(is_render, psutil_available, r1, r2) ==
    IF is_render THEN TRUE
    ELSE IF ~CheckMemoryLimit(psutil_available, r1)
    THEN CheckMemoryLimit(psutil_available, r2)
    ELSE TRUE

\* check_memory() as a statement of run: the returned value is dropped.
\* The pipeline is followed where psutil can be imported; where it cannot,
\* every consultation reports within limits (GuardNext).
\* pl_guard remembers the first consultation that was still over the limit
\* after the cleanup.
PL_CheckMemory ==
    /\ AtStep("check_memory")
    /\ \E r1 \in MemReadings, r2 \in MemReadings :
          LET psutil_available == PsutilAvailable(TRUE, pl_is_render)
              after_cleanup == GetMemoryUsage(psutil_available, r2)
          IN  pl_guard' = IF ~CheckMemory(pl_is_render, psutil_available, r1, r2)
                             /\ ~pl_guard.tripped
                          THEN [tripped |-> TRUE, used_mb |-> after_cleanup.used_mb,
                                percent |-> after_cleanup.percent]
                          ELSE pl_guard
    /\ pl_pc' = pl_pc + 1
    /\ pl_trace' = Append(pl_trace, Cm)
    /\ UNCHANGED <<pl_status, plInputs, pl_locals, plCheckpointVars, pl_executed,
                   pl_after_trip, plFailureVars, pl_meta, pl_run_tree>>
    /\ UNCHANGED OtherThanPipeline

\* A stage call begins.
StartStage(fn) ==
    /\ pl_executed' = Append(pl_executed, fn)
    /\ pl_after_trip' = (pl_after_trip \/ pl_guard.tripped)

\* Mutation: the checkpoint that follows the stage call is skipped.
StageReturns_SkipCheckpoint(fn, locals) ==
    /\ StartStage(fn)
    /\ pl_locals' = locals
    /\ pl_pc' = pl_pc + 2
    /\ pl_trace' = pl_trace \o <<Call(fn), Returned(fn)>>
    /\ UNCHANGED <<pl_status, plInputs, plCheckpointVars, pl_guard, plFailureVars>>
    /\ UNCHANGED OtherThanPipeline

\* A stage call returns: locals is the locals of run after the assignment.
StageReturns(fn, locals) ==
    /\ StartStage(fn)
    /\ pl_locals' = locals
    /\ pl_pc' = pl_pc + 1
    /\ pl_trace' = pl_trace \o <<Call(fn), Returned(fn)>>
    /\ UNCHANGED <<pl_status, plInputs, plCheckpointVars, pl_guard, plFailureVars>>
    /\ UNCHANGED OtherThanPipeline

\* Mutation: the exception is dropped and run goes on to the next statement.
StageFails_Continue(fn, e) ==
    /\ StartStage(fn)
    /\ pl_pc' = pl_pc + 1
    /\ pl_trace' = pl_trace \o <<Call(fn), Raised(fn)>>
    /\ UNCHANGED <<pl_status, plInputs, pl_locals, plCheckpointVars, pl_guard,
                   plFailureVars, pl_meta>>
    /\ UNCHANGED OtherThanPipeline

\* A stage call raises e: control passes to the except clause of run.
StageFails(fn, e) ==
    /\ StartStage(fn)
    /\ pl_status' = "handling"
    /\ pl_error' = e
    /\ pl_trace' = pl_trace \o <<Call(fn), Raised(fn)>>
    /\ UNCHANGED <<pl_pc, plInputs, pl_locals, plCheckpointVars, pl_guard, pl_raised,
                   pl_meta>>
    /\ UNCHANGED OtherThanPipeline

PL_NewRunDir ==
    /\ AtCall("new_run_dir")
    /\ StageReturns("new_run_dir", [pl_locals EXCEPT !.run_dir = TRUE])
    /\ UNCHANGED <<pl_meta, pl_run_tree>>

PL_GetVideoProps ==
    /\ AtCall("get_video_props")
    /\ pl_video.exists
    /\ StageReturns("get_video_props", [pl_locals EXCEPT !.props = GetVideoProps(pl_video)])
    /\ UNCHANGED <<pl_meta, pl_run_tree>>

\* if not path.exists(): raise FileNotFoundError
PL_GetVideoPropsMissing ==
    /\ AtCall("get_video_props")
    /\ ~pl_video.exists
    /\ StageFails("get_video_props",
                  [kind |-> "FileNotFoundError", stage |-> "get_video_props"])
    /\ UNCHANGED pl_run_tree

PL_ExtractFrames ==
    /\ AtCall("extract_frames")
    /\ StageReturns("extract_frames", [pl_locals EXCEPT !.frames = ExtractFrames(pl_video)])
    /\ pl_run_tree' = [pl_run_tree EXCEPT !.frames = PathsOf(ExtractFrames(pl_video))]
    /\ UNCHANGED pl_meta

PL_EmbedFrames ==
    /\ AtCall("embed_frames")
    /\ StageReturns("embed_frames",
                    [pl_locals EXCEPT !.embedded_frames =
                        EmbedFrames(pl_video.content, pl_locals.frames)])
    /\ UNCHANGED <<pl_meta, pl_run_tree>>

PL_ClusterFrames ==
    /\ AtCall("cluster_frames")
    /\ \E labels \in SeqsOfLen(PipeLabels, Len(pl_locals.embedded_frames)) :
          StageReturns("cluster_frames",
                       [pl_locals EXCEPT !.clusters =
                           ClusterFramesRun(pl_locals.embedded_frames, labels)])
    /\ UNCHANGED <<pl_meta, pl_run_tree>>

PL_ChooseReps ==
    /\ AtCall("choose_reps")
    /\ StageReturns("choose_reps",
                    [pl_locals EXCEPT !.representatives =
                        SelectRun(pl_locals.embedded_frames, pl_locals.clusters)])
    /\ UNCHANGED <<pl_meta, pl_run_tree>>

PL_LabelReps ==
    /\ AtCall("label_reps")
    /\ \E errs \in SUBSET DOMAIN pl_locals.representatives :
          StageReturns("label_reps",
                       [pl_locals EXCEPT !.labeled_reps =
                           LabelReps(pl_locals.representatives, errs)])
    /\ UNCHANGED <<pl_meta, pl_run_tree>>

\* The names of the clips clipper.run would try to encode.
ClipNames(frames, clusters, M) ==
    LET all == ClipperRun(frames, clusters, TRUE, M, {}).clips
    IN  {all[k].path[2] : k \in DOMAIN all}

\* The files clipper.run leaves in run_dir when the encodes named in failed
\* raise: the clips written and, when json_written, clips.json.  The early
\* returns for empty input write nothing.
TreeAfterClipper(tree, frames, clusters, clips, json_written) ==
    IF frames = <<>> \/ DOMAIN clusters = {} THEN tree
    ELSE [tree EXCEPT !.clips = {clips[k].path[2] : k \in DOMAIN clips},
                      !.clips_json = IF json_written THEN Written(clips) ELSE NotWritten]

\* clipper(frames=frames, clusters=clusters, video_path=video_path,
\* run_dir=run_dir): max_clip_seconds is not passed and takes its default.
PL_Clipper ==
    /\ AtCall("clipper")
    /\ ~pl_video.as_str
    /\ \E failed \in SUBSET ClipNames(pl_locals.frames, pl_locals.clusters,
                                      DEFAULT_MAX_CLIP_SECONDS) :
          LET result == ClipperRun(pl_locals.frames, pl_locals.clusters,
                                   pl_video.exists, DEFAULT_MAX_CLIP_SECONDS, failed)
          IN  /\ result.error = "none"
              /\ StageReturns("clipper", [pl_locals EXCEPT !.clips = result.clips])
              /\ pl_run_tree' = TreeAfterClipper(pl_run_tree, pl_locals.frames,
                                                 pl_locals.clusters, result.clips, TRUE)
    /\ UNCHANGED pl_meta

\* The clips are encoded, then writing clips.json raises (a full disk).
PL_ClipperJsonWriteFails ==
    /\ AtCall("clipper")
    /\ ~pl_video.as_str
    /\ pl_locals.frames # <<>>
    /\ DOMAIN pl_locals.clusters # {}
    /\ \E failed \in SUBSET ClipNames(pl_locals.frames, pl_locals.clusters,
                                      DEFAULT_MAX_CLIP_SECONDS) :
          LET result == ClipperRun(pl_locals.frames, pl_locals.clusters,
                                   pl_video.exists, DEFAULT_MAX_CLIP_SECONDS, failed)
          IN  /\ result.error = "none"
              /\ StageFails("clipper", [kind |-> "OSError", stage |-> "clipper"])
              /\ pl_run_tree' = TreeAfterClipper(pl_run_tree, pl_locals.frames,
                                                 pl_locals.clusters, result.clips, FALSE)

\* video_path.exists() on a str raises AttributeError; otherwise the
\* exception clipper.run raises itself.
PL_ClipperRaises ==
    /\ AtCall("clipper")
    /\ LET kind == IF pl_video.as_str THEN "AttributeError"
                   ELSE ClipperRun(pl_locals.frames, pl_locals.clusters, pl_video.exists,
                                   DEFAULT_MAX_CLIP_SECONDS, {}).error
       IN  /\ kind # "none"
           /\ StageFails("clipper", [kind |-> kind, stage |-> "clipper"])
    /\ UNCHANGED pl_run_tree

PL_WriteMeta ==
    /\ AtCall("write_meta")
    /\ StageReturns("write_meta", pl_locals)
    /\ UNCHANGED pl_run_tree
    /\ pl_meta' = Written([video_props |-> pl_locals.props,
                           representatives |-> pl_locals.labeled_reps,
                           clips |-> pl_locals.clips])

\* Any stage may raise for a reason of its environment (a directory clash,
\* an unreadable container, a model that fails to load, a full disk).
PL_StageRaises ==
    /\ AtStep("call")
    /\ StageFails(StepAt.arg, [kind |-> "Exception", stage |-> StepAt.arg])
    /\ UNCHANGED pl_run_tree

\* An except clause that ends the run without the checkpoint and the raise.
PL_HandleFailure_Swallow ==
    /\ pl_status = "handling"
    /\ pl_status' = "returned"
    /\ UNCHANGED <<pl_pc, plInputs, pl_locals, plCheckpointVars, pl_executed,
                   plGuardVars, plFailureVars, pl_meta, pl_trace, pl_run_tree>>
    /\ UNCHANGED OtherThanPipeline

\* except Exception as e: checkpoint("Pipeline failed", error_msg); raise
PL_HandleFailure ==
    /\ pl_status = "handling"
    /\ \E sink_raises \in (IF pl_sink = "callable" THEN BOOLEAN ELSE {FALSE}) :
          EmitCheckpoint("Pipeline failed", FailureMessage(pl_error), sink_raises)
    /\ pl_raised' = pl_error
    /\ pl_status' = "raised"
    /\ UNCHANGED <<pl_pc, plInputs, pl_locals, pl_executed, plGuardVars, pl_error,
                   pl_meta, pl_run_tree>>
    /\ UNCHANGED OtherThanPipeline

\* Mutation: run never gets to its return statement.
PL_Return_Stuck ==
    /\ pl_status = "running"
    /\ pl_pc = Len(PipelineBody) + 1
    /\ UNCHANGED pipelineVars
    /\ UNCHANGED OtherThanPipeline

\* return run_dir
PL_Return ==
    /\ pl_status = "running"
    /\ pl_pc = Len(PipelineBody) + 1
    /\ pl_status' = "returned"
    /\ UNCHANGED <<pl_pc, plInputs, pl_locals, plCheckpointVars, pl_executed,
                   plGuardVars, plFailureVars, pl_meta, pl_trace, pl_run_tree>>
    /\ UNCHANGED OtherThanPipeline

PipelineNext ==
    \/ PL_StageRaises
    \/ PL_HandleFailure
    \/ PL_Return
    \/ PL_Checkpoint
    \/ PL_CheckpointSinkRaises
    \/ PL_CheckMemory
    \/ PL_NewRunDir
    \/ PL_GetVideoProps
    \/ PL_GetVideoPropsMissing
    \/ PL_ExtractFrames
    \/ PL_EmbedFrames
    \/ PL_ClusterFrames
    \/ PL_ChooseReps
    \/ PL_LabelReps
    \/ PL_Clipper
    \/ PL_ClipperRaises
    \/ PL_ClipperJsonWriteFails
    \/ PL_WriteMeta

\* =========================================================================
\* config.py: new_run_dir, called by several pipeline invocations
\* =========================================================================

\* The invocations of new_run_dir, sequential or concurrent.
RunDirCallers == 1..MaxCallers

\* The names f"{prefix}{timestamp}_{uid8}" the callers may build: two
\* callers may build the same one (same second, same eight hex digits).
RunDirNames == {"run_a", "run_b"}

\* run_dir and its two sub-directories as paths under RUNS_ROOT.
RunDirPath(name) == <<name>>
FramesSubdir(name) == <<name, "frames">>
ClipsSubdir(name) == <<name, "clips">>
RunDirTree(name) == {RunDirPath(name), FramesSubdir(name), ClipsSubdir(name)}

RunDirIdle ==
    /\ rd_pc = [c \in RunDirCallers |-> "idle"]
    /\ rd_name = [c \in RunDirCallers |-> "none"]
    /\ rd_fs = {}
    /\ rd_fs0 = {}

\* RUNS_ROOT may already hold the trees of earlier invocations.
RunDirInit ==
    /\ rd_pc = [c \in RunDirCallers |-> "start"]
    /\ rd_name = [c \in RunDirCallers |-> "none"]
    /\ rd_fs \in {UNION {RunDirTree(n) : n \in N} : N \in SUBSET RunDirNames}
    /\ rd_fs0 = rd_fs

\* timestamp, uid8, name, run_dir = RUNS_ROOT / name
RD_Name(c) ==
    /\ rd_pc[c] = "start"
    /\ \E name \in RunDirNames : rd_name' = [rd_name EXCEPT ![c] = name]
    /\ rd_pc' = [rd_pc EXCEPT ![c] = "named"]
    /\ UNCHANGED <<rd_fs, rd_fs0>>
    /\ UNCHANGED OtherThanRunDir

\* Mutation: run_dir.mkdir(parents=True, exist_ok=True).
RD_Mkdir_ExistOk(c) ==
    /\ rd_pc[c] = "named"
    /\ rd_fs' = rd_fs \cup {RunDirPath(rd_name[c])}
    /\ rd_pc' = [rd_pc EXCEPT ![c] = "made"]
    /\ UNCHANGED <<rd_name, rd_fs0>>
    /\ UNCHANGED OtherThanRunDir

\* run_dir.mkdir(parents=True, exist_ok=False) on a path that does not
\* exist: one mkdir system call, atomic in the file system.
RD_Mkdir(c) ==
    /\ rd_pc[c] = "named"
    /\ RunDirPath(rd_name[c]) \notin rd_fs
    /\ rd_fs' = rd_fs \cup {RunDirPath(rd_name[c])}
    /\ rd_pc' = [rd_pc EXCEPT ![c] = "made"]
    /\ UNCHANGED <<rd_name, rd_fs0>>
    /\ UNCHANGED OtherThanRunDir

\* The same call on a path that exists: FileExistsError.
RD_MkdirExists(c) ==
    /\ rd_pc[c] = "named"
    /\ RunDirPath(rd_name[c]) \in rd_fs
    /\ rd_pc' = [rd_pc EXCEPT ![c] = "raised"]
    /\ UNCHANGED <<rd_name, rd_fs, rd_fs0>>
    /\ UNCHANGED OtherThanRunDir

\* (run_dir / FRAMES_SUBDIR).mkdir()
RD_MkdirFrames(c) ==
    /\ rd_pc[c] = "made"
    /\ rd_fs' = rd_fs \cup {FramesSubdir(rd_name[c])}
    /\ rd_pc' = [rd_pc EXCEPT ![c] = "frames"]
    /\ UNCHANGED <<rd_name, rd_fs0>>
    /\ UNCHANGED OtherThanRunDir

\* (run_dir / CLIPS_SUBDIR).mkdir(); return run_dir
RD_MkdirClips(c) ==
    /\ rd_pc[c] = "frames"
    /\ rd_fs' = rd_fs \cup {ClipsSubdir(rd_name[c])}
    /\ rd_pc' = [rd_pc EXCEPT ![c] = "done"]
    /\ UNCHANGED <<rd_name, rd_fs0>>
    /\ UNCHANGED OtherThanRunDir

RunDirNext ==
    \E c \in RunDirCallers :
        \/ RD_Name(c)
        \/ RD_Mkdir(c)
        \/ RD_MkdirExists(c)
        \/ RD_MkdirFrames(c)
        \/ RD_MkdirClips(c)

\* =========================================================================
\* extract_frames.py: run, statement by statement
\* =========================================================================

\* The rates OpenCV reports for the videos handed to extract_frames.run.
ExtractFpsChoices ==
    {<<0, 1>>, <<1, 100>>, <<1, 4>>, <<1, 2>>, <<3, 4>>, <<1, 1>>, <<5, 4>>, <<2, 1>>}

ExtractVideos ==
    [exists : {TRUE}, as_str : {FALSE}, fps : ExtractFpsChoices,
     nframes : 0..MaxDecodedFrames, content : {"still"}]

NoProps == [fps |-> <<0, 1>>, frame_count |-> 0, duration |-> 0]

ExtractIdle ==
    /\ ex_pc = "idle"
    /\ ex_video = NoVideo
    /\ ex_props = NoProps
    /\ ex_step = 0
    /\ ex_frame_idx = 0
    /\ ex_saved_idx = 0
    /\ ex_extracted = <<>>
    /\ ex_kept = <<>>
    /\ ex_error = "none"

ExtractInit ==
    /\ ex_pc = "start"
    /\ ex_video \in ExtractVideos
    /\ ex_props = NoProps
    /\ ex_step = 0
    /\ ex_frame_idx = 0
    /\ ex_saved_idx = 0
    /\ ex_extracted = <<>>
    /\ ex_kept = <<>>
    /\ ex_error = "none"

\* props, frames_dir, step, cap = cv2.VideoCapture(...), cap.isOpened()
EX_Start ==
    /\ ex_pc = "start"
    /\ ex_props' = GetVideoProps(ex_video)
    /\ ex_step' = FrameStep(GetVideoProps(ex_video).fps)
    /\ ex_pc' = "loop"
    /\ UNCHANGED <<ex_video, ex_frame_idx, ex_saved_idx, ex_extracted, ex_kept, ex_error>>
    /\ UNCHANGED OtherThanExtract

\* if not cap.isOpened(): raise RuntimeError
EX_OpenFails ==
    /\ ex_pc = "start"
    /\ ex_props' = GetVideoProps(ex_video)
    /\ ex_step' = FrameStep(GetVideoProps(ex_video).fps)
    /\ ex_pc' = "raised"
    /\ ex_error' = "RuntimeError"
    /\ UNCHANGED <<ex_video, ex_frame_idx, ex_saved_idx, ex_extracted, ex_kept>>
    /\ UNCHANGED OtherThanExtract

\* One iteration of the read loop on a decoded frame: it is saved and
\* recorded when frame_idx % step == 0, passed over otherwise.
EX_Read ==
    /\ ex_pc = "loop"
    /\ ex_frame_idx < ex_video.nframes
    /\ IF ex_frame_idx % ex_step = 0
       THEN /\ ex_extracted' = Append(ex_extracted,
                                      [timestamp |-> TimestampOf(ex_frame_idx, ex_props.fps),
                                       index |-> ex_saved_idx,
                                       path |-> FramePath(ex_saved_idx)])
            /\ ex_kept' = Append(ex_kept, ex_frame_idx)
            /\ ex_saved_idx' = ex_saved_idx + 1
       ELSE UNCHANGED <<ex_extracted, ex_kept, ex_saved_idx>>
    /\ ex_frame_idx' = ex_frame_idx + 1
    /\ UNCHANGED <<ex_pc, ex_video, ex_props, ex_step, ex_error>>
    /\ UNCHANGED OtherThanExtract

\* cv2.imwrite returns False on a frame to keep: raise RuntimeError.
EX_SaveFails ==
    /\ ex_pc = "loop"
    /\ ex_frame_idx < ex_video.nframes
    /\ ex_frame_idx % ex_step = 0
    /\ ex_pc' = "raised"
    /\ ex_error' = "RuntimeError"
    /\ UNCHANGED <<ex_video, ex_props, ex_step, ex_frame_idx, ex_saved_idx,
                   ex_extracted, ex_kept>>
    /\ UNCHANGED OtherThanExtract

\* cap.read() returns ret = False: release the capture, return extracted.
EX_End ==
    /\ ex_pc = "loop"
    /\ ex_frame_idx >= ex_video.nframes
    /\ ex_pc' = "done"
    /\ UNCHANGED <<ex_video, ex_props, ex_step, ex_frame_idx, ex_saved_idx,
                   ex_extracted, ex_kept, ex_error>>
    /\ UNCHANGED OtherThanExtract

ExtractNext ==
    \/ EX_Start
    \/ EX_OpenFails
    \/ EX_Read
    \/ EX_SaveFails
    \/ EX_End

\* =========================================================================
\* config.py: the memory guard consulted on its own
\* =========================================================================

NoLimitError == [raised |-> FALSE, current_mb |-> 0, limit_mb |-> 0]

\* assert_memory_available on the reading m: the MemoryLimitExceededError it
\* raises, if any.
AssertMemoryAvailable(psutil_available, m) ==
    LET memory_info == GetMemoryUsage(psutil_available, m)
        error == [raised |-> TRUE, current_mb |-> memory_info.used_mb,
                  limit_mb |-> MAX_MEMORY_MB]
    IN  IF ~memory_info.available THEN NoLimitError
        ELSE IF memory_info.used_mb > MAX_MEMORY_MB THEN error
        ELSE IF memory_info.percent > MEMORY_CRITICAL_PERCENT THEN error
        ELSE NoLimitError

\* A consultation: the function called, the readings psutil gave it, and
\* what came back.
Consultation(fn, r1, r2, ok, info, error) ==
    [fn |-> fn, r1 |-> r1, r2 |-> r2, ok |-> ok, info |-> info, error |-> error]

NoReading == [used_mb |-> 0, total_mb |-> 0, percent |-> 0]
NoConsultation == Consultation("none", NoReading, NoReading, TRUE, Unavailable, NoLimitError)

GuardIdle ==
    /\ gd_is_render = FALSE
    /\ gd_psutil = FALSE
    /\ gd_last = NoConsultation

GuardInit ==
    /\ gd_is_render \in BOOLEAN
    /\ gd_psutil \in BOOLEAN
    /\ gd_last = NoConsultation

GD_GetMemoryUsage ==
    /\ \E m \in MemReadings :
          LET info == GetMemoryUsage(PsutilAvailable(gd_psutil, gd_is_render), m)
          IN  gd_last' = Consultation("get_memory_usage", m, NoReading, TRUE, info,
                                      NoLimitError)
    /\ UNCHANGED <<gd_is_render, gd_psutil>>
    /\ UNCHANGED OtherThanGuard

GD_CheckMemoryLimit ==
    /\ \E m \in MemReadings :
          LET psutil_available == PsutilAvailable(gd_psutil, gd_is_render)
          IN  gd_last' = Consultation("check_memory_limit", m, NoReading,
                                      CheckMemoryLimit(psutil_available, m),
                                      GetMemoryUsage(psutil_available, m), NoLimitError)
    /\ UNCHANGED <<gd_is_render, gd_psutil>>
    /\ UNCHANGED OtherThanGuard

GD_AssertMemoryAvailable ==
    /\ \E m \in MemReadings :
          LET psutil_available == PsutilAvailable(gd_psutil, gd_is_render)
              error == AssertMemoryAvailable(psutil_available, m)
          IN  gd_last' = Consultation("assert_memory_available", m, NoReading,
                                      ~error.raised,
                                      GetMemoryUsage(psutil_available, m), error)
    /\ UNCHANGED <<gd_is_render, gd_psutil>>
    /\ UNCHANGED OtherThanGuard

\* check_memory of pipeline.run: r1 is read before the cleanup, r2 after.
GD_CheckMemory ==
    /\ \E r1 \in MemReadings, r2 \in MemReadings :
          LET psutil_available == PsutilAvailable(gd_psutil, gd_is_render)
          IN  gd_last' = Consultation("check_memory", r1, r2,
                                      CheckMemory(gd_is_render, psutil_available, r1, r2),
                                      GetMemoryUsage(psutil_available, r1), NoLimitError)
    /\ UNCHANGED <<gd_is_render, gd_psutil>>
    /\ UNCHANGED OtherThanGuard

GuardNext ==
    \/ GD_GetMemoryUsage
    \/ GD_CheckMemoryLimit
    \/ GD_AssertMemoryAvailable
    \/ GD_CheckMemory

\* =========================================================================
\* app.py: the JOBS registry, process_video_sync, upload_video and
\* _process_video, get_status
\* =========================================================================

\* JOBS[job_id], or the absence of the entry.
NoJob ==
    [registered |-> FALSE, state |-> "none", run_dir |-> "none", error |-> "none",
     progress |-> "none"]

\* {"state": "processing", "run_dir": None, "error": None} and the optional
\* "progress" entry.
NewJob(progress) ==
    [registered |-> TRUE, state |-> "processing", run_dir |-> "none", error |-> "none",
     progress |-> progress]

\* How the endpoint or the background task ended.
NoResult == [kind |-> "none", detail |-> "none"]
Responded(detail) == [kind |-> "response", detail |-> detail]
Propagated(exc) == [kind |-> "raised", detail |-> exc]

\* The exceptions pipeline.run raises to its caller.
PipelineErrors == {"FileNotFoundError", "RuntimeError", "MemoryLimitExceededError"}

\* The stages pipeline.run reports to progress_callback.
ProgressStages == {"Extracting frames", "Pipeline complete", "Pipeline failed"}

\* Whether the name MemoryLimitExceededError is bound where app.py uses it:
\* neither the module's imports nor the import in process_video_sync bind it.
MemoryLimitExceededErrorBound == FALSE

\* JOBS[job_id].update(state="error", error=str(exc), progress=...)
JobFailed(job, exc) ==
    IF job.registered
    THEN [job EXCEPT !.state = "error", !.error = exc, !.progress = "Failed"]
    ELSE job

\* JOBS[job_id].update(state="done", run_dir=run_dir, progress=...)
JobDone(job) ==
    [job EXCEPT !.state = "done", !.run_dir = "run_dir", !.progress = "Processing complete"]

\* The except clause of _process_video on the exception exc: [job, result].
BackgroundHandler(job, exc) ==
    [job |-> JobFailed(job, exc), result |-> Responded("task ended")]

\* The except clauses of process_video_sync on the exception exc raised in
\* the try block: [job, result].  Matching the first clause evaluates the
\* name MemoryLimitExceededError; unbound, that raises NameError out of the
\* endpoint before any clause body runs.
SyncHandler(job, exc) ==
    IF ~MemoryLimitExceededErrorBound
    THEN [job |-> job, result |-> Propagated("NameError")]
    ELSE [job |-> JobFailed(job, exc), result |-> Responded("error")]

JobsIdle ==
    /\ jb_path = "idle"
    /\ jb_pc = "idle"
    /\ jb_is_render = FALSE
    /\ jb_job = NoJob
    /\ jb_calls = 0
    /\ jb_result = NoResult
    /\ jb_polled = "none"

\* A request has arrived at /api/process ("sync") or /api/upload
\* ("background").
JobsInit ==
    /\ jb_path \in {"sync", "background"}
    /\ jb_pc = "received"
    /\ jb_is_render \in BOOLEAN
    /\ jb_job = NoJob
    /\ jb_calls = 0
    /\ jb_result = NoResult
    /\ jb_polled = "none"

\* `not IS_RENDER and not check_memory_limit()` on the reading m.
OverLimitOffRender(m) ==
    ~jb_is_render /\ ~CheckMemoryLimit(PsutilAvailable(TRUE, jb_is_render), m)

\* The handler ends with exception exc caught by the except clauses of
\* process_video_sync.
SyncFails(exc) ==
    LET h == SyncHandler(jb_job, exc)
    IN  /\ jb_job' = h.job
        /\ jb_result' = h.result
        /\ jb_pc' = "over"

\* process_video_sync: the upload cannot be written, or the file is too
\* large (HTTPException 400).
JB_SyncUploadRejected ==
    /\ jb_path = "sync"
    /\ jb_pc = "received"
    /\ \E exc \in {"OSError", "HTTPException"} : SyncFails(exc)
    /\ UNCHANGED <<jb_path, jb_is_render, jb_calls, jb_polled>>
    /\ UNCHANGED OtherThanJobs

\* process_video_sync: memory over the limit before processing
\* (HTTPException 503).
JB_SyncMemoryRejected ==
    /\ jb_path = "sync"
    /\ jb_pc = "received"
    /\ \E m \in MemReadings : OverLimitOffRender(m)
    /\ SyncFails("HTTPException")
    /\ UNCHANGED <<jb_path, jb_is_render, jb_calls, jb_polled>>
    /\ UNCHANGED OtherThanJobs

\* process_video_sync: JOBS[job_id] = {"state": "processing", ...}
JB_SyncRegister ==
    /\ jb_path = "sync"
    /\ jb_pc = "received"
    /\ \E m \in MemReadings : ~OverLimitOffRender(m)
    /\ jb_job' = NewJob("Starting pipeline...")
    /\ jb_pc' = "registered"
    /\ UNCHANGED <<jb_path, jb_is_render, jb_calls, jb_result, jb_polled>>
    /\ UNCHANGED OtherThanJobs

\* process_video_sync: progress_callback("Initializing", ...) called by the
\* endpoint itself: the progress is stored, then the memory test may run
\* `raise MemoryLimitExceededError(...)`, a NameError while the name is unbound.
JB_SyncInitialProgress ==
    /\ jb_path = "sync"
    /\ jb_pc = "registered"
    /\ \E m \in MemReadings :
          IF OverLimitOffRender(m)
          THEN LET h == SyncHandler([jb_job EXCEPT !.progress = "Initializing"],
                                    IF MemoryLimitExceededErrorBound
                                    THEN "MemoryLimitExceededError" ELSE "NameError")
               IN  /\ jb_job' = h.job
                   /\ jb_result' = h.result
                   /\ jb_pc' = "over"
          ELSE /\ jb_job' = [jb_job EXCEPT !.progress = "Initializing"]
               /\ jb_pc' = "assert"
               /\ UNCHANGED jb_result
    /\ UNCHANGED <<jb_path, jb_is_render, jb_calls, jb_polled>>
    /\ UNCHANGED OtherThanJobs

\* process_video_sync: if not IS_RENDER: assert_memory_available()
JB_SyncAssertMemory ==
    /\ jb_path = "sync"
    /\ jb_pc = "assert"
    /\ \E m \in MemReadings :
          IF ~jb_is_render /\ AssertMemoryAvailable(PsutilAvailable(TRUE, jb_is_render), m).raised
          THEN SyncFails("MemoryLimitExceededError")
          ELSE /\ jb_pc' = "running"
               /\ UNCHANGED <<jb_job, jb_result>>
    /\ UNCHANGED <<jb_path, jb_is_render, jb_calls, jb_polled>>
    /\ UNCHANGED OtherThanJobs

\* pipeline.run calls progress_callback: the progress is stored; what the
\* callback raises after that is swallowed by the pipeline's checkpoint.
JB_Progress ==
    /\ jb_pc = "running"
    /\ jb_calls < MaxProgressCalls
    /\ \E stage \in ProgressStages : jb_job' = [jb_job EXCEPT !.progress = stage]
    /\ jb_calls' = jb_calls + 1
    /\ UNCHANGED <<jb_path, jb_pc, jb_is_render, jb_result, jb_polled>>
    /\ UNCHANGED OtherThanJobs

\* process_video_sync: run returned; the job is updated and the success
\* response returned.
JB_SyncRunReturns ==
    /\ jb_path = "sync"
    /\ jb_pc = "running"
    /\ jb_job' = JobDone(jb_job)
    /\ jb_result' = Responded("success")
    /\ jb_pc' = "over"
    /\ UNCHANGED <<jb_path, jb_is_render, jb_calls, jb_polled>>
    /\ UNCHANGED OtherThanJobs

\* process_video_sync: run raised.
JB_SyncRunRaises ==
    /\ jb_path = "sync"
    /\ jb_pc = "running"
    /\ \E exc \in PipelineErrors : SyncFails(exc)
    /\ UNCHANGED <<jb_path, jb_is_render, jb_calls, jb_polled>>
    /\ UNCHANGED OtherThanJobs

\* upload_video: the upload cannot be written; nothing is registered.
JB_UploadFails ==
    /\ jb_path = "background"
    /\ jb_pc = "received"
    /\ jb_result' = Propagated("OSError")
    /\ jb_pc' = "over"
    /\ UNCHANGED <<jb_path, jb_is_render, jb_job, jb_calls, jb_polled>>
    /\ UNCHANGED OtherThanJobs

\* upload_video: register the job and schedule _process_video.
JB_Upload ==
    /\ jb_path = "background"
    /\ jb_pc = "received"
    /\ jb_job' = NewJob("none")
    /\ jb_pc' = "registered"
    /\ UNCHANGED <<jb_path, jb_is_render, jb_calls, jb_result, jb_polled>>
    /\ UNCHANGED OtherThanJobs

\* The task ends with exception exc caught by `except Exception`.
TaskFails(exc) ==
    LET h == BackgroundHandler(jb_job, exc)
    IN  /\ jb_job' = h.job
        /\ jb_result' = h.result
        /\ jb_pc' = "over"

\* _process_video: the uploaded file is missing or empty.
JB_TaskFileRejected ==
    /\ jb_path = "background"
    /\ jb_pc = "registered"
    /\ \E exc \in {"FileNotFoundError", "ValueError"} : TaskFails(exc)
    /\ UNCHANGED <<jb_path, jb_is_render, jb_calls, jb_polled>>
    /\ UNCHANGED OtherThanJobs

\* _process_video: progress_callback("Initializing", ...)
JB_TaskInitialProgress ==
    /\ jb_path = "background"
    /\ jb_pc = "registered"
    /\ jb_job' = [jb_job EXCEPT !.progress = "Initializing"]
    /\ jb_pc' = "running"
    /\ UNCHANGED <<jb_path, jb_is_render, jb_calls, jb_result, jb_polled>>
    /\ UNCHANGED OtherThanJobs

\* _process_video: run returned.
JB_TaskRunReturns ==
    /\ jb_path = "background"
    /\ jb_pc = "running"
    /\ jb_job' = JobDone(jb_job)
    /\ jb_result' = Responded("task ended")
    /\ jb_pc' = "over"
    /\ UNCHANGED <<jb_path, jb_is_render, jb_calls, jb_polled>>
    /\ UNCHANGED OtherThanJobs

\* _process_video: run raised.
JB_TaskRunRaises ==
    /\ jb_path = "background"
    /\ jb_pc = "running"
    /\ \E exc \in PipelineErrors : TaskFails(exc)
    /\ UNCHANGED <<jb_path, jb_is_render, jb_calls, jb_polled>>
    /\ UNCHANGED OtherThanJobs

\* get_status: the state of the job, or 404 when it is not registered.
JB_GetStatus ==
    /\ jb_pc # "idle"
    /\ jb_polled' = IF jb_job.registered THEN jb_job.state ELSE "not found"
    /\ UNCHANGED <<jb_path, jb_pc, jb_is_render, jb_job, jb_calls, jb_result>>
    /\ UNCHANGED OtherThanJobs

JobsNext ==
    \/ JB_SyncUploadRejected
    \/ JB_SyncMemoryRejected
    \/ JB_SyncRegister
    \/ JB_SyncInitialProgress
    \/ JB_SyncAssertMemory
    \/ JB_Progress
    \/ JB_SyncRunReturns
    \/ JB_SyncRunRaises
    \/ JB_UploadFails
    \/ JB_Upload
    \/ JB_TaskFileRejected
    \/ JB_TaskInitialProgress
    \/ JB_TaskRunReturns
    \/ JB_TaskRunRaises
    \/ JB_GetStatus

\* =========================================================================
\* Specifications: one per component, the others idle
\* =========================================================================

OthersIdle == RunDirIdle /\ ExtractIdle /\ GuardIdle /\ JobsIdle
CoreIdle == ClusterIdle /\ ClipperIdle /\ SelectIdle /\ PipelineIdle

InitCluster == ClusterInit /\ ClipperIdle /\ SelectIdle /\ PipelineIdle /\ OthersIdle
NextCluster == ClusterNext
SpecCluster == InitCluster /\ [][NextCluster]_vars

InitClipper == ClipperInit /\ ClusterIdle /\ SelectIdle /\ PipelineIdle /\ OthersIdle
NextClipper == ClipperNext
SpecClipper == InitClipper /\ [][NextClipper]_vars

InitSelect == SelectInit /\ ClusterIdle /\ ClipperIdle /\ PipelineIdle /\ OthersIdle
NextSelect == SelectNext
SpecSelect == InitSelect /\ [][NextSelect]_vars

InitPipeline == PipelineInit /\ ClusterIdle /\ ClipperIdle /\ SelectIdle /\ OthersIdle
NextPipeline == PipelineNext
SpecPipeline == InitPipeline /\ [][NextPipeline]_vars
\* Every statement of run returns or raises, so run keeps taking steps
\* until it has returned or raised.
LiveSpecPipeline == SpecPipeline /\ WF_vars(NextPipeline)

InitRunDir == RunDirInit /\ CoreIdle /\ ExtractIdle /\ GuardIdle /\ JobsIdle
NextRunDir == RunDirNext
SpecRunDir == InitRunDir /\ [][NextRunDir]_vars

InitExtract == ExtractInit /\ CoreIdle /\ RunDirIdle /\ GuardIdle /\ JobsIdle
NextExtract == ExtractNext
SpecExtract == InitExtract /\ [][NextExtract]_vars

InitGuard == GuardInit /\ CoreIdle /\ RunDirIdle /\ ExtractIdle /\ JobsIdle
NextGuard == GuardNext
SpecGuard == InitGuard /\ [][NextGuard]_vars

InitJobs == JobsInit /\ CoreIdle /\ RunDirIdle /\ ExtractIdle /\ GuardIdle
NextJobs == JobsNext
SpecJobs == InitJobs /\ [][NextJobs]_vars

\* ---------------------------------------------------- claims: clustering --
\* The scene id the finished run gives to row k of the sorted frame table.
SceneIdOfRow(k) == cf_mapping[cf_df[k].path]

\* C1: with at least 2 frames, two maximal noise runs separated by a
\* non-noise frame get different scene ids, and the id of a noise frame
\* differs from every label the clustering produced.
C1_NoiseRunsGetDistinctFreshIds ==
    (cf_pc = "done" /\ Len(cf_frames) >= 2) =>
        LET n == Len(cf_df)
        IN  /\ \A a, b \in 1..n :
                  (/\ a < b
                   /\ cf_labels[a] = NOISE
                   /\ cf_labels[b] = NOISE
                   /\ \E c \in (a + 1)..(b - 1) : cf_labels[c] # NOISE)
                  => SceneIdOfRow(a) # SceneIdOfRow(b)
            /\ \A a, j \in 1..n :
                  cf_labels[a] = NOISE => SceneIdOfRow(a) # cf_labels[j]

\* Two noise runs around a clustered frame, and a positive label present.
C1_Witness ==
    /\ cf_pc = "done"
    /\ Len(cf_frames) >= 2
    /\ \E a, c, b \in 1..Len(cf_labels) :
          /\ a < c /\ c < b
          /\ cf_labels[a] = NOISE /\ cf_labels[b] = NOISE
          /\ cf_labels[c] = MaxLabel

\* C2: when run has returned, the mapping has an entry for exactly the input
\* frame paths and every scene id in it is a non-negative integer.
C2_MappingTotalAndNonNegative ==
    cf_pc = "done" =>
        /\ DOMAIN cf_mapping = {cf_frames[k].path : k \in DOMAIN cf_frames}
        /\ \A p \in DOMAIN cf_mapping : cf_mapping[p] \in Nat

\* An all-noise clustering of at least two frames has been resegmented.
C2_Witness ==
    /\ cf_pc = "done"
    /\ Len(cf_frames) >= 2
    /\ \A k \in DOMAIN cf_labels : cf_labels[k] = NOISE

\* ------------------------------------------------------- claims: clipper --
\* The encode calls made for block seq, in call order.
AttemptsOfBlock(seq) == SelectSeq(cl_attempts, LAMBDA a : a.name[2] = seq)

\* Some encode call raised.
SomeEncodeFailed == \E k \in DOMAIN cl_attempts : ~cl_attempts[k].ok

\* C5: a block of duration D > M is cut into exactly ceil(D/M) chunks laid end
\* to end from the block start; all but the last have length M, the last ends
\* at the block end with length D - (ceil(D/M) - 1) * M.
C5_LongBlockCutIntoCeilChunks ==
    cl_pc = "done" =>
        \A s \in 0..(Len(cl_blocks) - 1) :
            LET b == cl_blocks[s + 1]
                D == b.end - b.start
                M == cl_max
                att == AttemptsOfBlock(s)
            IN  D > M =>
                \E K \in 1..((D \div M) + 1) :
                    /\ (K - 1) * M < D
                    /\ D <= K * M
                    /\ Len(att) = K
                    /\ \A k \in 1..K :
                          /\ att[k].name = OutName(s, k - 1)
                          /\ att[k].start = IF k = 1 THEN b.start ELSE att[k - 1].end
                          /\ k < K => att[k].end - att[k].start = M
                          /\ k = K => /\ att[k].end = b.end
                                      /\ att[k].end - att[k].start = D - (K - 1) * M

\* A block longer than twice the maximum, not a multiple of it, was cut.
C5_Witness ==
    /\ cl_pc = "done"
    /\ \E s \in 0..(Len(cl_blocks) - 1) :
          LET b == cl_blocks[s + 1]
              att == AttemptsOfBlock(s)
          IN  /\ b.end - b.start > 2 * cl_max
              /\ Len(att) >= 3
              /\ att[Len(att)].end - att[Len(att)].start < cl_max

\* The chunks of block seq (0-based) as the chunking rule gives them.
ExpectedK(D, M) == CHOOSE K \in 1..((D \div M) + 1) : (K - 1) * M < D /\ D <= K * M
ExpectedChunksOfBlock(seq) ==
    LET b == cl_blocks[seq + 1]
        D == b.end - b.start
    IN  IF D <= 0 THEN <<>>
        ELSE [k \in 1..ExpectedK(D, cl_max) |->
                [path |-> <<"clips", <<"clip", seq, k - 1>>>>,
                 start |-> b.start + (k - 1) * cl_max,
                 end |-> Min2(b.start + k * cl_max, b.end),
                 cluster_id |-> b.cid]]
RECURSIVE ExpectedChunksFrom(_)
ExpectedChunksFrom(seq) ==
    IF seq >= Len(cl_blocks) THEN <<>>
    ELSE ExpectedChunksOfBlock(seq) \o ExpectedChunksFrom(seq + 1)

EncodeFailedFor(name) == \E k \in DOMAIN cl_attempts :
                            cl_attempts[k].name = name /\ ~cl_attempts[k].ok

\* C7: an encode that raises removes only its own chunk: run does not raise,
\* every chunk is still attempted, and the returned records are the records
\* of a failure-free run minus the failed chunks, in the same order.
C7_EncodeFailureDropsOnlyThatChunk ==
    /\ SomeEncodeFailed => cl_pc # "raised"
    /\ (cl_pc = "done" /\ cl_blocks # <<>>) =>
          /\ [k \in DOMAIN cl_attempts |-> <<"clips", cl_attempts[k].name>>]
                = [k \in DOMAIN ExpectedChunksFrom(0) |-> ExpectedChunksFrom(0)[k].path]
          /\ cl_meta = SelectSeq(ExpectedChunksFrom(0),
                                 LAMBDA r : ~EncodeFailedFor(r.path[2]))

\* A run returned after an encode failed between two that succeeded.
C7_Witness ==
    /\ cl_pc = "done"
    /\ \E i, j, k \in DOMAIN cl_attempts :
          /\ i < j /\ j < k
          /\ cl_attempts[i].ok /\ ~cl_attempts[j].ok /\ cl_attempts[k].ok

SomeFrameUnassigned == \E k \in DOMAIN cl_frames : cl_frames[k].path \notin DOMAIN cl_clusters
FailedBeforeAnyWork ==
    /\ cl_pc = "raised"
    /\ cl_error \in {"ValueError", "FileNotFoundError"}
    /\ cl_blocks = <<>>
    /\ cl_attempts = <<>>
    /\ cl_meta = <<>>
    /\ ~cl_json.written

EmptyInput == cl_frames = <<>> \/ DOMAIN cl_clusters = {}
ReturnedEmpty == cl_pc = "done" /\ cl_meta = <<>> /\ cl_error = "none"

\* C9 as claimed: an empty frame list or an empty scene assignment returns an
\* empty clip list and raises nothing.
C9_Original ==
    (cl_pc \notin {"idle", "start"} /\ EmptyInput) => ReturnedEmpty

\* C9 amended: the same, when the video file exists (the existence check
\* comes first and raises FileNotFoundError).
C9_EmptyInputReturnsEmptyWhenVideoExists ==
    (cl_pc \notin {"idle", "start"} /\ EmptyInput /\ cl_video_exists) => ReturnedEmpty

\* Frames were given with an empty scene assignment, and run returned.
C9_Witness ==
    /\ cl_pc = "done"
    /\ cl_frames # <<>>
    /\ DOMAIN cl_clusters = {}
    /\ cl_json.written

\* ----------------------------------------------- claims: representatives --
\* The scene ids assigned to the input frames.
SceneIdsOfInput == {sr_clusters[p] : p \in PathsOf(sr_frames)}

\* C10: run returns exactly one representative per distinct scene id of the
\* input frames: as many representatives as distinct ids, no id twice, and
\* each representative is an input frame assigned to its id.
C10_OneRepresentativePerSceneId ==
    sr_pc = "done" =>
        /\ Len(sr_reps) = Cardinality(SceneIdsOfInput)
        /\ \A a, b \in DOMAIN sr_reps : a # b => sr_reps[a].cluster # sr_reps[b].cluster
        /\ \A r \in DOMAIN sr_reps :
              /\ sr_reps[r].cluster \in SceneIdsOfInput
              /\ \E k \in DOMAIN sr_frames :
                    /\ sr_frames[k].path = sr_reps[r].path
                    /\ sr_frames[k].index = sr_reps[r].index
                    /\ sr_clusters[sr_frames[k].path] = sr_reps[r].cluster

\* A scene id recurred after another one, and the run returned two
\* representatives.
C10_Witness ==
    /\ sr_pc = "done"
    /\ Len(sr_reps) = 2
    /\ \E i, j, k \in DOMAIN sr_frames :
          /\ i < j /\ j < k
          /\ sr_clusters[sr_frames[i].path] = sr_clusters[sr_frames[k].path]
          /\ sr_clusters[sr_frames[i].path] # sr_clusters[sr_frames[j].path]

\* The members of scene cid in the order run received them.
GroupItems(cid) == SelectSeq(sr_frames, LAMBDA f : sr_clusters[f.path] = cid)

\* The positions of items at minimal distance from the centroid of items.
Nearest(items) ==
    LET dists == ScaledSquaredDists(items)
    IN  {j \in DOMAIN items : \A i \in DOMAIN items : dists[j] <= dists[i]}

HasDistanceTie(items) ==
    LET dists == ScaledSquaredDists(items)
    IN  \E i, j \in DOMAIN items : i # j /\ dists[i] = dists[j]

\* Every reordering of the sequence fs.
Reorderings(fs) ==
    {[k \in DOMAIN fs |-> fs[p[k]]] :
        p \in {q \in [DOMAIN fs -> DOMAIN fs] : \A i, j \in DOMAIN fs : i # j => q[i] # q[j]}}

\* The path of the representative of scene cid in the list reps.
RepPathOf(reps, cid) ==
    (CHOOSE r \in Range(reps) : r.cluster = cid).path

\* C12: for a scene group in which no two members are at the same distance
\* from the centroid, run selects the same frame whatever the order in which
\* the frames are passed.
C12_RepresentativeIndependentOfOrder ==
    sr_pc = "done" =>
        \A fs \in Reorderings(sr_frames) :
            \A r \in DOMAIN sr_reps :
                ~HasDistanceTie(GroupItems(sr_reps[r].cluster)) =>
                    RepPathOf(SelectRun(fs, sr_clusters), sr_reps[r].cluster)
                        = sr_reps[r].path

\* A group of three members at three different distances whose
\* representative was not the first member passed.
C12_Witness ==
    /\ sr_pc = "done"
    /\ \E r \in DOMAIN sr_reps :
          LET items == GroupItems(sr_reps[r].cluster)
          IN  /\ Len(items) = 3
              /\ ~HasDistanceTie(items)
              /\ items[1].path # sr_reps[r].path

\* ------------------------------------------------------ claims: pipeline --
\* The run is over: run returned or raised.
RunOver == pl_status \in {"returned", "raised"}

\* C3: with memory monitoring active, once a guard consultation is still over
\* the limit after the forced reclamation, no later stage is executed and
\* the run fails with a resource-exhaustion error.
C3_GuardTripFailsTheRun ==
    pl_guard.tripped =>
        /\ ~pl_after_trip
        /\ RunOver => (pl_status = "raised" /\ pl_raised.kind = "MemoryLimitExceededError")

\* The last element of a non-empty sequence.
Last(seq) == seq[Len(seq)]

\* The "Pipeline failed" checkpoint for exception e.
FailedCheckpoint(e) == [stage |-> "Pipeline failed", message |-> FailureMessage(e)]

\* The checkpoints of seq whose stage is "Pipeline failed".
FailedCheckpointsIn(seq) == SelectSeq(seq, LAMBDA c : c.stage = "Pipeline failed")

\* C4: when a stage of run raises, the failing stage is the last stage
\* executed, the run ends by raising the same exception to its caller, and
\* the "Pipeline failed" checkpoint carrying the exception's message is
\* emitted exactly once, as the last checkpoint of the run.
C4_StageFailureAbortsReportsAndPropagates ==
    /\ pl_error # NoError =>
          /\ pl_status \in {"handling", "raised"}
          /\ pl_executed # <<>>
          /\ Last(pl_executed) = pl_error.stage
          /\ pl_executed = SubSeq(StageCalls, 1, Len(pl_executed))
          /\ pl_status = "handling" => FailedCheckpointsIn(pl_checkpoints) = <<>>
          /\ pl_status = "raised" =>
                /\ pl_raised = pl_error
                /\ Last(pl_checkpoints) = FailedCheckpoint(pl_error)
                /\ Len(FailedCheckpointsIn(pl_checkpoints)) = 1
                /\ pl_sink = "callable" =>
                      /\ Last(pl_sink_calls) = FailedCheckpoint(pl_error)
                      /\ pl_sink_calls = pl_checkpoints
    /\ pl_error = NoError =>
          /\ pl_raised = NoError
          /\ FailedCheckpointsIn(pl_checkpoints) = <<>>

\* cluster_frames raised in a run whose progress callback raises too, and
\* run has raised to its caller after four completed stages.
C4_Witness ==
    /\ pl_status = "raised"
    /\ pl_error.stage = "cluster_frames"
    /\ pl_sink = "callable"
    /\ pl_sink_failed
    /\ Len(pl_executed) = 5
    /\ pl_locals.embedded_frames # <<>>

\* C6: every clip record a pipeline run produces has end > start and lasts
\* at most config.CLIP_MAX_LENGTH seconds.
C6_PipelineClipsWithinClipMaxLength ==
    \A k \in DOMAIN pl_locals.clips :
        /\ pl_locals.clips[k].end > pl_locals.clips[k].start
        /\ pl_locals.clips[k].end - pl_locals.clips[k].start <= CLIP_MAX_LENGTH

\* -------------------------------------------- claims: pipeline, continued --
\* What a checkpoint with a quiet progress callback does to the run, apart
\* from the callback's own bookkeeping.
QuietCheckpointStep ==
    /\ pl_executed' = pl_executed
    /\ pl_locals' = pl_locals
    /\ pl_meta' = pl_meta
    /\ pl_run_tree' = pl_run_tree
    /\ pl_error' = pl_error
    /\ pl_guard' = pl_guard
    /\ \/ /\ pl_status = "running"
          /\ pl_status' = "running"
          /\ pl_pc' = pl_pc + 1
          /\ pl_raised' = pl_raised
          /\ Last(pl_checkpoints').stage = StepAt.arg
       \/ /\ pl_status = "handling"
          /\ pl_status' = "raised"
          /\ pl_raised' = pl_error
          /\ Last(pl_checkpoints') = FailedCheckpoint(pl_error)

\* C13: an exception of the progress callback during a checkpoint, the
\* "Pipeline failed" one included, leaves the run exactly where the same
\* checkpoint with a quiet callback leaves it, and the exception run raises
\* is always the one a stage raised.
C13_SinkFailureDoesNotChangeOutcome ==
    /\ [](pl_raised # NoError => (pl_raised = pl_error /\ pl_error.stage \in Range(StageCalls)))
    /\ [][(~pl_sink_failed /\ pl_sink_failed') => QuietCheckpointStep]_vars

\* The progress callback raised and run still went through every stage,
\* wrote the metadata and returned.
C13_Witness ==
    /\ pl_sink_failed
    /\ pl_status = "returned"
    /\ pl_executed = StageCalls
    /\ pl_meta.written

\* The events of the given kind in the trace, in order, as stage names.
StageEvents(op) ==
    LET sel == SelectSeq(pl_trace, LAMBDA ev : ev.op = op)
    IN  [k \in DOMAIN sel |-> sel[k].arg]

\* C14: the stages start in the one fixed order, each one only after all
\* earlier ones have returned, none twice and none skipped; a stage that
\* raises is the last one started; and at every stage call the failure
\* state can be entered.
C14_StagesRunOnceInFixedOrder ==
    /\ StageEvents("call") = SubSeq(StageCalls, 1, Len(StageEvents("call")))
    /\ StageEvents("call") = pl_executed
    /\ StageEvents("returned") = SubSeq(StageCalls, 1, Len(StageEvents("returned")))
    /\ Len(StageEvents("raised")) <= 1
    /\ Len(StageEvents("returned")) + Len(StageEvents("raised")) = Len(StageEvents("call"))
    /\ \A i \in DOMAIN pl_trace :
          pl_trace[i].op = "raised" =>
              \A j \in DOMAIN pl_trace : j > i => pl_trace[j].op = "checkpoint"
    /\ pl_status = "returned" => StageEvents("returned") = StageCalls
    /\ AtStep("call") => ENABLED PL_StageRaises

\* The last stage, write_meta, raised after the eight stages before it had
\* returned.
C14_Witness ==
    /\ pl_status = "raised"
    /\ pl_error.stage = "write_meta"
    /\ StageEvents("returned") = SubSeq(StageCalls, 1, 8)
    /\ StageEvents("raised") = <<"write_meta">>

\* Between positions a and b of the trace (both excluded) there are a
\* checkpoint and a consultation of the memory guard.
CheckpointAndGuardBetween(a, b) ==
    /\ \E c \in (a + 1)..(b - 1) : pl_trace[c].op = "checkpoint"
    /\ \E m \in (a + 1)..(b - 1) : pl_trace[m].op = "check_memory"

C16_FailedRunLeavesNoClipOutput ==
    pl_status = "raised" =>
        /\ pl_run_tree.clips = {}
        /\ ~pl_run_tree.clips_json.written

\* The "Pipeline complete" and "Pipeline failed" checkpoints emitted so far.
TerminalCheckpoints ==
    SelectSeq(pl_checkpoints,
              LAMBDA c : c.stage \in {"Pipeline complete", "Pipeline failed"})

\* C17: every run ends, and in one of two ways: it returns after emitting
\* "Pipeline complete", or raises after emitting "Pipeline failed"; at most
\* one terminal checkpoint is ever emitted and none follows it.
C17_RunTerminatesOneWay ==
    /\ <>RunOver
    /\ [](/\ Len(TerminalCheckpoints) <= 1
          /\ TerminalCheckpoints # <<>> => Last(pl_checkpoints) = TerminalCheckpoints[1]
          /\ pl_status = "returned" =>
                /\ TerminalCheckpoints # <<>>
                /\ TerminalCheckpoints[1].stage = "Pipeline complete"
                /\ pl_locals.run_dir
                /\ pl_raised = NoError
          /\ pl_status = "raised" =>
                /\ TerminalCheckpoints # <<>>
                /\ TerminalCheckpoints[1].stage = "Pipeline failed"
                /\ pl_raised # NoError)

\* A run on a video with frames returned with clips after "Pipeline
\* complete".
C17_Witness ==
    /\ pl_status = "returned"
    /\ Last(pl_checkpoints).stage = "Pipeline complete"
    /\ pl_locals.clips # <<>>

\* ----------------------------------------- claims: run directories --------

\* The caller's run_dir.mkdir has returned: the directory is its workspace.
OwnsRunDir(c) == rd_pc[c] \in {"made", "frames", "done"}

\* What the caller has created so far.
CreatedBy(c) ==
    IF rd_pc[c] = "made" THEN {RunDirPath(rd_name[c])}
    ELSE IF rd_pc[c] = "frames" THEN {RunDirPath(rd_name[c]), FramesSubdir(rd_name[c])}
    ELSE IF rd_pc[c] = "done" THEN RunDirTree(rd_name[c])
    ELSE {}

\* C18: no two invocations of new_run_dir, in any interleaving, use the same
\* run directory.  An invocation either creates a directory that did not
\* exist before, and by its return the frames and clips sub-directories in
\* it, or raises and leaves every existing directory as it was.
C18_RunDirectoriesAreNeverShared ==
    /\ \A c \in RunDirCallers, d \in RunDirCallers :
          (c # d /\ OwnsRunDir(c) /\ OwnsRunDir(d)) => rd_name[c] # rd_name[d]
    /\ \A c \in RunDirCallers :
          /\ OwnsRunDir(c) => RunDirPath(rd_name[c]) \notin rd_fs0
          /\ rd_pc[c] = "done" => RunDirTree(rd_name[c]) \subseteq rd_fs
          /\ rd_pc[c] = "raised" =>
                \E other \in (rd_fs0 \cup UNION {CreatedBy(d) : d \in RunDirCallers \ {c}}) :
                    other = RunDirPath(rd_name[c])
    /\ rd_fs = rd_fs0 \cup UNION {CreatedBy(c) : c \in RunDirCallers}

\* Two concurrent invocations built the same name: one returned its fresh
\* workspace, the other raised FileExistsError.
C18_Witness ==
    \E c \in RunDirCallers, d \in RunDirCallers :
        /\ c # d
        /\ rd_name[c] = rd_name[d]
        /\ rd_pc[c] = "done"
        /\ rd_pc[d] = "raised"
        /\ RunDirPath(rd_name[c]) \notin rd_fs0

\* ----------------------------------------- claims: frame extraction -------

AbsDiff(a, b) == IF a >= b THEN a - b ELSE b - a

\* max(round(fps / FRAME_RATE), 1) stated without the division: the whole
\* number nearest to the quotient, the even one of two equally near.
SamplingStep(fps) ==
    LET a == fps[1] * FRAME_RATE_DEN
        b == fps[2] * FRAME_RATE_NUM
        candidates == 0..((a \div b) + 1)
        nearest == {n \in candidates :
                       \A m \in candidates : AbsDiff(a, n * b) <= AbsDiff(a, m * b)}
        rounded == CHOOSE n \in nearest : \A m \in nearest \ {n} : n % 2 = 0
    IN  IF rounded >= 1 THEN rounded ELSE 1

\* The decoded frames passed so far whose native index is a multiple of step.
MultiplesPassed(step) == {i \in 0..(ex_frame_idx - 1) : i % step = 0}

\* C19: extract_frames.run keeps exactly the decoded frames whose native
\* index is a multiple of step = max(round(native_fps / target_rate), 1);
\* the kept frames carry indices 0, 1, 2, ... without gaps in emission
\* order, each has timestamp native_index / native_fps, and timestamps do
\* not decrease with the index.
C19_KeptFramesAreTheMultiplesOfStep ==
    ex_pc \in {"loop", "done", "raised"} =>
        LET step == SamplingStep(ex_props.fps)
        IN  /\ ex_step = step
            /\ Len(ex_kept) = Cardinality(MultiplesPassed(step))
            /\ \A k \in DOMAIN ex_kept : ex_kept[k] = (k - 1) * step
            /\ Len(ex_extracted) = Len(ex_kept)
            /\ \A k \in DOMAIN ex_extracted :
                  /\ ex_extracted[k].index = k - 1
                  /\ ex_extracted[k].timestamp[2] > 0
                  /\ ex_extracted[k].timestamp[1] * ex_props.fps[1]
                        = ex_kept[k] * ex_props.fps[2] * ex_extracted[k].timestamp[2]
            /\ \A j \in DOMAIN ex_extracted, k \in DOMAIN ex_extracted :
                  j < k => ex_extracted[j].timestamp[1] * ex_extracted[k].timestamp[2]
                               <= ex_extracted[k].timestamp[1] * ex_extracted[j].timestamp[2]
            /\ ex_pc = "done" => ex_frame_idx = ex_video.nframes

\* A video at 1.25 frames per second, 2.5 native frames per target frame:
\* the step is 2, frames 0, 2 and 4 were kept and the others passed over.
C19_Witness ==
    /\ ex_pc = "done"
    /\ ex_video.fps = <<5, 4>>
    /\ ex_step = 2
    /\ ex_kept = <<0, 2, 4>>
    /\ ex_frame_idx = 6
    /\ ex_extracted[3].index = 2
    /\ ex_extracted[3].timestamp = <<16, 5>>

\* ----------------------------------------- claims: memory guard -----------

\* The reading is over a limit the guard enforces.
OverLimit(m) == m.used_mb > MAX_MEMORY_MB \/ m.percent > MEMORY_CRITICAL_PERCENT

\* C20: with the RENDER flag set the guard is a no-op: whatever psutil
\* would read, check_memory of the pipeline returns True,
\* check_memory_limit returns True, assert_memory_available does not raise
\* and get_memory_usage reports no reading.
C20_RenderGuardAlwaysWithinLimits ==
    (gd_is_render /\ gd_last.fn # "none") =>
        /\ gd_last.ok
        /\ ~gd_last.error.raised
        /\ ~gd_last.info.available

\* On Render with psutil installed, usage over both limits before and
\* after the cleanup: check_memory returned True.
C20_Witness ==
    /\ gd_is_render
    /\ gd_psutil
    /\ gd_last.fn = "check_memory"
    /\ OverLimit(gd_last.r1)
    /\ gd_last.r1.used_mb <= MEMORY_SANITY_MB
    /\ OverLimit(gd_last.r2)
    /\ gd_last.ok

\* ----------------------------------------- claims: memory guard, sanity ----

\* psutil reports more used or more total memory than a machine can have.
Implausible(m) == m.used_mb > MEMORY_SANITY_MB \/ m.total_mb > MEMORY_SANITY_MB

\* C21: whenever the memory source reports used or total memory above
\* 10000 MB, get_memory_usage marks the reading as unavailable, and
\* check_memory_limit returns True whatever percentage was reported.
C21_ImplausibleReadingIsUnavailableAndWithinLimits ==
    (gd_last.fn \in {"get_memory_usage", "check_memory_limit"} /\ Implausible(gd_last.r1)) =>
        /\ gd_last.info = Unavailable
        /\ gd_last.fn = "check_memory_limit" => gd_last.ok

\* Off Render with psutil installed: 12000 MB used at 99 percent, and
\* check_memory_limit returned True.
C21_Witness ==
    /\ ~gd_is_render
    /\ gd_psutil
    /\ gd_last.fn = "check_memory_limit"
    /\ gd_last.r1.used_mb > MEMORY_SANITY_MB
    /\ gd_last.r1.percent > MEMORY_CRITICAL_PERCENT
    /\ gd_last.ok
    /\ ~gd_last.info.available

\* ----------------------------------------- claims: noise resegmentation ---

\* The rows the resegmentation walk has passed.
RowsWalked == IF cf_pc \in {"loop", "done"} /\ Len(cf_labels) > 0 THEN 1..(cf_i - 1) ELSE {}

\* Row a is the first row of a contiguous noise run.
StartsNoiseRun(a) == cf_labels[a] = NOISE /\ (a = 1 \/ cf_labels[a - 1] # NOISE)

\* Rows a..b lie in one contiguous noise run.
SameNoiseRun(a, b) == a <= b /\ \A c \in a..b : cf_labels[c] = NOISE

\* The scene ids given to the rows before row a.
IdsBefore(a) == {cf_final[c] : c \in 1..(a - 1)}

\* One id is assigned to every frame of a noise run.
OneIdPerNoiseRun ==
    \A a \in RowsWalked, b \in RowsWalked :
        (StartsNoiseRun(a) /\ SameNoiseRun(a, b)) => cf_final[b] = cf_final[a]

\* C22 as stated: the id minted at the start of a noise run is the highest
\* scene id seen so far in the walk plus one.
C22_Original ==
    /\ \A a \in RowsWalked :
          (StartsNoiseRun(a) /\ a > 1) => cf_final[a] = SetMax(IdsBefore(a)) + 1
    /\ OneIdPerNoiseRun

\* C22: the id minted at the start of each new contiguous noise run is one
\* more than the highest of the labels the clustering produced for any
\* frame, earlier or later, and of the scene ids given so far in the walk;
\* that one id is assigned to every frame of the run until a non-noise
\* frame appears.
C22_MintedIdIsAboveEveryLabelAndEveryIdSoFar ==
    /\ \A a \in RowsWalked :
          StartsNoiseRun(a) =>
              cf_final[a] = SetMax(Range(cf_labels) \cup IdsBefore(a)) + 1
    /\ OneIdPerNoiseRun

\* Labels 0, noise, noise, 1: the noise run began after only id 0 had been
\* seen and got id 2 on both of its frames.
C22_Witness ==
    /\ cf_pc = "done"
    /\ Len(cf_labels) >= 4
    /\ cf_labels[1] = 0 /\ cf_labels[2] = NOISE /\ cf_labels[3] = NOISE
    /\ cf_labels[4] = 1
    /\ cf_final[2] = 2 /\ cf_final[3] = 2

\* C23: every frame whose clustering label is not the noise sentinel keeps
\* exactly that label as its final scene id, whatever noise runs precede or
\* follow it.
C23_NonNoiseFramesKeepTheirLabel ==
    /\ \A a \in RowsWalked : cf_labels[a] # NOISE => cf_final[a] = cf_labels[a]
    /\ (cf_pc = "done" /\ Len(cf_frames) >= 2) =>
          \A k \in DOMAIN cf_df :
              cf_labels[k] # NOISE => SceneIdOfRow(k) = cf_labels[k]

\* A clustered frame between two noise runs, another right after a noise
\* run, and the run has returned its mapping.
C23_Witness ==
    /\ cf_pc = "done"
    /\ Len(cf_labels) >= 4
    /\ cf_labels[1] = NOISE /\ cf_labels[2] = 1 /\ cf_labels[3] = NOISE
    /\ cf_labels[4] = 0
    /\ SceneIdOfRow(2) = 1
    /\ SceneIdOfRow(4) = 0

\* C24: a scene id synthesized for a noise run never recurs: in the final
\* assignment the frames carrying it are noise frames and form exactly one
\* contiguous run in chronological order.  Ids coming from the clustering
\* may appear in several non-adjacent runs (C24_Witness).
C24_SynthesizedIdFormsOneContiguousRun ==
    (cf_pc = "done" /\ Len(cf_frames) >= 2) =>
        \A a \in DOMAIN cf_df, b \in DOMAIN cf_df :
            (cf_labels[a] = NOISE /\ SceneIdOfRow(b) = SceneIdOfRow(a)) =>
                /\ cf_labels[b] = NOISE
                /\ \A c \in DOMAIN cf_df :
                      ((a <= c /\ c <= b) \/ (b <= c /\ c <= a)) =>
                          SceneIdOfRow(c) = SceneIdOfRow(a)

\* Labels 0, noise, noise, 0, noise: the first noise run carries one id on
\* its two frames and nowhere else, the last frame another, and the
\* clustering's id 0 appears in two runs that are not adjacent.
C24_Witness ==
    /\ cf_pc = "done"
    /\ cf_labels = <<0, NOISE, NOISE, 0, NOISE>>
    /\ SceneIdOfRow(2) = SceneIdOfRow(3)
    /\ SceneIdOfRow(5) # SceneIdOfRow(2)
    /\ SceneIdOfRow(1) = SceneIdOfRow(4)
    /\ SceneIdOfRow(2) # SceneIdOfRow(1)

\* C25: called with fewer than 2 frames, run assigns scene id 0 to every
\* frame (an empty mapping for no frames) and performs neither reduction,
\* clustering nor noise resegmentation.
C25_FewerThanTwoFramesAllSceneZero ==
    (Len(cf_frames) < 2 /\ cf_pc # "idle") =>
        /\ cf_pc \in {"start", "done"}
        /\ ~cf_reduced
        /\ cf_df = <<>>
        /\ cf_labels = <<>>
        /\ cf_final = <<>>
        /\ cf_i = 0
        /\ cf_current = UNSET
        /\ cf_pc = "done" =>
              /\ DOMAIN cf_mapping = {cf_frames[k].path : k \in DOMAIN cf_frames}
              /\ \A p \in DOMAIN cf_mapping : cf_mapping[p] = 0

\* A single frame: the returned mapping gives it scene id 0.
C25_Witness ==
    /\ cf_pc = "done"
    /\ Len(cf_frames) = 1
    /\ cf_mapping[cf_frames[1].path] = 0
    /\ ~cf_reduced

\* No frame at all: the returned mapping is empty.
C25_WitnessEmpty ==
    /\ cf_pc = "done"
    /\ cf_frames = <<>>
    /\ DOMAIN cf_mapping = {}

\* ----------------------------------------- claims: clipper, continued -----

\* The records returned for block seq, in list order.
RecordsOfBlock(seq) == SelectSeq(cl_meta, LAMBDA r : r.path[2][2] = seq)

\* C26: a block of positive duration D not greater than the maximum M
\* (D = M included) yields exactly one clip, from the block's start to the
\* block's end: one encode call is made for it, and its record is the
\* block's only record (none when that encode raised).
C26_ShortBlockYieldsOneWholeClip ==
    cl_pc = "done" =>
        \A s \in 0..(Len(cl_blocks) - 1) :
            LET b == cl_blocks[s + 1]
                D == b.end - b.start
                att == AttemptsOfBlock(s)
            IN  (0 < D /\ D <= cl_max) =>
                    /\ Len(att) = 1
                    /\ att[1].name = OutName(s, 0)
                    /\ att[1].start = b.start
                    /\ att[1].end = b.end
                    /\ att[1].cid = b.cid
                    /\ RecordsOfBlock(s) =
                          IF att[1].ok
                          THEN <<[path |-> <<"clips", OutName(s, 0)>>, start |-> b.start,
                                  end |-> b.end, cluster_id |-> b.cid]>>
                          ELSE <<>>

\* D = 100 against M = 240: the one clip returned is [0, 100].
C26_Witness ==
    /\ cl_pc = "done"
    /\ cl_max = DEFAULT_MAX_CLIP_SECONDS
    /\ Len(cl_blocks) = 1
    /\ cl_blocks[1].start = 0 /\ cl_blocks[1].end = 100
    /\ Len(cl_meta) = 1
    /\ cl_meta[1].start = 0 /\ cl_meta[1].end = 100

\* D = M: a block exactly as long as the maximum gave one clip.
C26_WitnessAtMaximum ==
    /\ cl_pc = "done"
    /\ \E s \in 0..(Len(cl_blocks) - 1) :
          /\ cl_blocks[s + 1].end - cl_blocks[s + 1].start = cl_max
          /\ Len(RecordsOfBlock(s)) = 1

\* The scene id of row k of the sorted timeline.
SceneOfRow(k) == cl_clusters[cl_df[k].path]

\* The rows at which a maximal run of equal scene ids begins.
RunStarts == {k \in DOMAIN cl_df : k = 1 \/ SceneOfRow(k) # SceneOfRow(k - 1)}

\* The first and the last row of the j-th maximal run.
RunFirstRow(j) == CHOOSE k \in RunStarts : Cardinality({i \in RunStarts : i <= k}) = j
RunLastRow(j) ==
    IF j = Cardinality(RunStarts) THEN Len(cl_df) ELSE RunFirstRow(j + 1) - 1

\* Chunk name a comes before chunk name b: earlier block, or the same block
\* and a lower chunk index.
NameBefore(a, b) == a[2] < b[2] \/ (a[2] = b[2] /\ a[3] < b[3])

\* C27: the clip list is ordered by block-discovery order and, within a
\* block, by increasing chunk index, for any input frame order and any
\* pattern of encode failures.  The blocks are the maximal contiguous runs
\* of equal scene id in frame-index order: two adjacent blocks never share
\* a scene id, and a scene id recurring non-adjacently yields separate
\* blocks.
C27_ClipsInBlockThenChunkOrder ==
    cl_blocks # <<>> =>
        /\ Len(cl_df) = Len(cl_frames)
        /\ Range(cl_df) = Range(cl_frames)
        /\ \A k \in 1..(Len(cl_df) - 1) : cl_df[k].index < cl_df[k + 1].index
        /\ Len(cl_blocks) = Cardinality(RunStarts)
        /\ \A j \in DOMAIN cl_blocks :
              /\ cl_blocks[j].cid = SceneOfRow(RunFirstRow(j))
              /\ cl_blocks[j].start = cl_df[RunFirstRow(j)].timestamp
              /\ cl_blocks[j].end = cl_df[RunLastRow(j)].timestamp
              /\ \A k \in RunFirstRow(j)..RunLastRow(j) : SceneOfRow(k) = cl_blocks[j].cid
        /\ \A j \in 1..(Len(cl_blocks) - 1) : cl_blocks[j].cid # cl_blocks[j + 1].cid
        /\ \A i \in DOMAIN cl_meta, j \in DOMAIN cl_meta :
              i < j => NameBefore(cl_meta[i].path[2], cl_meta[j].path[2])
        /\ \A i \in DOMAIN cl_attempts, j \in DOMAIN cl_attempts :
              i < j => NameBefore(cl_attempts[i].name, cl_attempts[j].name)

\* Frames passed in reverse order with scene ids 0, 0, 1, 0, 0: scene 0
\* gave the first and the third block, the first block was cut into two
\* chunks of which one failed to encode, and the clip of the first block
\* precedes that of the third in the returned list.
C27_Witness ==
    /\ cl_pc = "done"
    /\ Len(cl_frames) = 5
    /\ cl_frames[1].index > cl_frames[5].index
    /\ Len(cl_blocks) = 3
    /\ cl_blocks[1].cid = cl_blocks[3].cid
    /\ SomeEncodeFailed
    /\ \E i \in DOMAIN cl_meta, j \in DOMAIN cl_meta :
          /\ i < j
          /\ cl_meta[i].path[2][2] = 0
          /\ cl_meta[j].path[2][2] = 2
    /\ Len(AttemptsOfBlock(0)) = 2

\* C28: a block or chunk whose duration is not positive (a block made of a
\* single sampled frame, whose start and end coincide) is skipped: it gives
\* no clip record and no encode call, run never raises over it, and the
\* remaining blocks are still processed.
C28_NonPositiveDurationIsSkipped ==
    /\ \A k \in DOMAIN cl_attempts : cl_attempts[k].end - cl_attempts[k].start > 0
    /\ \A k \in DOMAIN cl_meta : cl_meta[k].end - cl_meta[k].start > 0
    /\ cl_pc = "raised" => (cl_seq = 0 /\ cl_attempts = <<>> /\ cl_meta = <<>>)
    /\ \A s \in 0..(Len(cl_blocks) - 1) :
          LET D == cl_blocks[s + 1].end - cl_blocks[s + 1].start
          IN  /\ D <= 0 => (AttemptsOfBlock(s) = <<>> /\ RecordsOfBlock(s) = <<>>)
              /\ (D > 0 /\ (cl_pc = "done" \/ s < cl_seq)) => Len(AttemptsOfBlock(s)) >= 1
    /\ (cl_pc = "done" /\ cl_blocks # <<>>) => cl_seq = Len(cl_blocks)

\* A single-frame block came first and was passed over; the block after it
\* was encoded and is the only one with a record.
C28_Witness ==
    /\ cl_pc = "done"
    /\ Len(cl_blocks) >= 2
    /\ cl_blocks[1].end = cl_blocks[1].start
    /\ cl_blocks[2].end > cl_blocks[2].start
    /\ AttemptsOfBlock(0) = <<>>
    /\ Len(RecordsOfBlock(1)) >= 1
    /\ cl_json.written

\* Timestamps grow strictly with the frame index.
TimestampsStrictlyIncreasing ==
    \A i \in DOMAIN cl_df, j \in DOMAIN cl_df :
        cl_df[i].index < cl_df[j].index => cl_df[i].timestamp < cl_df[j].timestamp

\* C29: given frames whose timestamps are strictly increasing in index
\* order, the returned clips do not overlap and appear with non-decreasing
\* start times: of two clips the earlier in the list ends no later than the
\* other starts; and every clip lies within [timestamp of the first frame,
\* timestamp of the last frame].
C29_ClipsDisjointOrderedAndWithinTimeline ==
    (cl_blocks # <<>> /\ TimestampsStrictlyIncreasing) =>
        /\ \A i \in DOMAIN cl_meta, j \in DOMAIN cl_meta :
              i < j => /\ cl_meta[i].end <= cl_meta[j].start
                       /\ cl_meta[i].start <= cl_meta[j].start
        /\ \A i \in DOMAIN cl_meta :
              /\ cl_df[1].timestamp <= cl_meta[i].start
              /\ cl_meta[i].start < cl_meta[i].end
              /\ cl_meta[i].end <= cl_df[Len(cl_df)].timestamp
        /\ cl_pc = "done" => cl_json.content = cl_meta

\* Three clips returned: two chunks of one block that touch, then a clip of
\* a later block after a gap.
C29_Witness ==
    /\ cl_pc = "done"
    /\ Len(cl_meta) = 3
    /\ cl_meta[1].end = cl_meta[2].start
    /\ cl_meta[2].end < cl_meta[3].start
    /\ cl_meta[1].path[2][2] = cl_meta[2].path[2][2]
    /\ cl_meta[3].path[2][2] # cl_meta[2].path[2][2]
    /\ cl_meta[3].end = cl_df[Len(cl_df)].timestamp

\* ----------------------------------------- claims: job registry -----------

\* The endpoint or the background task that served the request has ended.
InvocationOver == jb_pc = "over"

\* C30: every job registered with state 'processing' leaves that state once
\* its pipeline invocation finishes, on the background path and on the
\* synchronous endpoint: it is 'done' with run_dir set if pipeline.run
\* returned, 'error' with the error message recorded if anything raised.
C30_JobLeavesProcessingWhenInvocationOver ==
    (InvocationOver /\ jb_job.registered) =>
        /\ jb_job.state \in {"done", "error"}
        /\ jb_job.state = "done" => (jb_job.run_dir # "none" /\ jb_job.error = "none")
        /\ jb_job.state = "error" => (jb_job.error # "none" /\ jb_job.run_dir = "none")

\* The same on the background path alone, where it holds.
C30_BackgroundJobLeavesProcessing ==
    jb_path = "background" => C30_JobLeavesProcessingWhenInvocationOver

\* 'done' and 'error' are never changed afterwards.
C30_TerminalStatesAreStable ==
    [][jb_job.state \in {"done", "error"} => jb_job' = jb_job]_vars

\* The synchronous endpoint has ended with NameError after registering the
\* job, and get_status still answers 'processing'.
C30_StuckProcessing ==
    /\ jb_path = "sync"
    /\ InvocationOver
    /\ jb_job.registered
    /\ jb_job.state = "processing"
    /\ jb_result = Propagated("NameError")
    /\ jb_polled = "processing"

====
